---- MODULE Spec2Model ----
(***************************************************************************)
(* Model of the grp-cli execution engine: the job dependency graph         *)
(* (engine.JobGraph), the wave executor (engine.Executor) and the stage    *)
(* orchestrator (engine.Orchestrator), with the plugin manager             *)
(* (plugins.Manager), the reference resolver (config.Resolver) and the     *)
(* plan validator (config.Validator), each under a specification of its    *)
(* own.                                                                    *)
(*                                                                         *)
(* Strings are Go strings; an error value is the text of the error and the *)
(* nil error is the value Nil.  A Go map is a TLA+ function whose DOMAIN   *)
(* is the set of keys; a Go slice is a sequence.                           *)
(***************************************************************************)
EXTENDS Naturals, Sequences, FiniteSets, TLC

(***************************************************************************)
(* Bounds of the model.                                                    *)
(***************************************************************************)
\* number of job names a stage draws its jobs and its dependsOn entries from
MaxJobs == 3
\* number of dependsOn entries of the jobs of a stage, all together
MaxDeps == 3
\* number of forward stages of a plan
MaxStages == 2
\* number of stages of a rollback plan
MaxRollbackStages == 2
\* number of goroutines that call the plugin manager
MaxThreads == 2
\* number of calls of the plugin manager, all goroutines together
MaxCalls == 3

NamePool == <<"A", "B", "C", "D", "E", "F">>
StageNamePool == <<"s1", "s2", "s3", "s4", "s5">>
RollbackNamePool == <<"r1", "r2", "r3", "r4", "r5">>

JobNames == {NamePool[i] : i \in 1..MaxJobs}

\* the nil error
Nil == "<nil>"

(***************************************************************************)
(* Helpers on slices and maps.                                             *)
(***************************************************************************)
Range(s) == {s[i] : i \in 1..Len(s)}

\* m[k] of a Go map of slices: the nil slice when the key is absent
Lookup(m, k) == IF k \in DOMAIN m THEN m[k] ELSE <<>>

\* m[k] = v of a Go map
Store(m, k, v) == [x \in DOMAIN m \cup {k} |-> IF x = k THEN v ELSE m[x]]

\* the orders in which a range loop may visit the keys of a Go map
Perms(S) ==
    {p \in [1..Cardinality(S) -> S] : \A i, j \in 1..Cardinality(S) : p[i] = p[j] => i = j}

\* the names of S in the order of NamePool
InPoolOrder(S) == SelectSeq(NamePool, LAMBDA n : n \in S)

(***************************************************************************)
(* engine.JobGraph                                                         *)
(***************************************************************************)
NewJobGraph ==
    [jobs |-> <<>>, dependencies |-> <<>>, dependents |-> <<>>, completed |-> {}]

AddJob(g, job) ==
    [g EXCEPT
       !.jobs = Store(g.jobs, job.Name, job),
       !.dependencies =
           IF job.Name \in DOMAIN g.dependencies THEN @ ELSE Store(@, job.Name, <<>>),
       !.dependents =
           IF job.Name \in DOMAIN g.dependents THEN @ ELSE Store(@, job.Name, <<>>)]

AddDependency(g, jobName, dependsOn) ==
    [g EXCEPT
       !.dependencies = Store(@, jobName, Append(Lookup(@, jobName), dependsOn)),
       !.dependents = Store(@, dependsOn, Append(Lookup(@, dependsOn), jobName))]

\* g.completed[name] of the Go map[string]bool: false when absent
Completed(g, name) == name \in g.completed

GetReadyJobsIgnoringDeps(g) ==
    Perms({name \in DOMAIN g.jobs : ~Completed(g, name)})

\* "allDepsCompleted" looks at the first dependency only
allDepsCompletedFirstOnly(g, deps, i) == deps = <<>> \/ Completed(g, deps[1])

RECURSIVE allDepsCompleted(_, _, _)
\* the loop of GetReadyJobs over g.dependencies[name], from position i on: the
\* value of allDepsCompleted after it
allDepsCompleted(g, deps, i) ==
    IF i > Len(deps) THEN TRUE
    ELSE IF ~Completed(g, deps[i]) THEN FALSE
    ELSE allDepsCompleted(g, deps, i + 1)

RECURSIVE getReadyJobsLoopWithCompleted(_, _, _, _)
\* the loop does not skip the completed jobs
getReadyJobsLoopWithCompleted(g, order, i, ready) ==
    IF i > Len(order) THEN ready
    ELSE IF allDepsCompleted(g, Lookup(g.dependencies, order[i]), 1)
         THEN getReadyJobsLoopWithCompleted(g, order, i + 1, Append(ready, order[i]))
         ELSE getReadyJobsLoopWithCompleted(g, order, i + 1, ready)

RECURSIVE getReadyJobsLoop(_, _, _, _)
\* the loop of GetReadyJobs over g.jobs, visited in the given order, from position
\* i on; ready is the slice readyJobs (the jobs are given by their names)
getReadyJobsLoop(g, order, i, ready) ==
    IF i > Len(order) THEN ready
    ELSE IF Completed(g, order[i]) THEN getReadyJobsLoop(g, order, i + 1, ready)
    ELSE IF allDepsCompleted(g, Lookup(g.dependencies, order[i]), 1)
         THEN getReadyJobsLoop(g, order, i + 1, Append(ready, order[i]))
         ELSE getReadyJobsLoop(g, order, i + 1, ready)

\* the slices GetReadyJobs may return, over the orders the map may be visited in
GetReadyJobs(g) == {getReadyJobsLoop(g, order, 1, <<>>) : order \in Perms(DOMAIN g.jobs)}

\* MarkCompleted as "g.completed[jobName] = !g.completed[jobName]"
MarkCompletedToggling(g, jobName) ==
    [g EXCEPT !.completed = IF jobName \in @ THEN @ \ {jobName} ELSE @ \cup {jobName}]

MarkCompleted(g, jobName) == [g EXCEPT !.completed = @ \cup {jobName}]

IsCompleted(g) == \A name \in DOMAIN g.jobs : Completed(g, name)

RECURSIVE hasCyclesDFS(_, _, _)
RECURSIVE hasCyclesDeps(_, _, _, _)

\* hasCyclesDFS without "recStack[node] = false"
hasCyclesDFSKeepingStack(g, node, st) ==
    hasCyclesDeps(g, Lookup(g.dependencies, node), 1,
                  [visited |-> st.visited \cup {node},
                   recStack |-> st.recStack \cup {node},
                   found |-> FALSE])

\* st = [visited, recStack, found]; the result carries the updated maps
hasCyclesDFS(g, node, st) ==
    LET entered == [visited |-> st.visited \cup {node},
                    recStack |-> st.recStack \cup {node},
                    found |-> FALSE]
        r == hasCyclesDeps(g, Lookup(g.dependencies, node), 1, entered)
    IN  IF r.found THEN r ELSE [r EXCEPT !.recStack = @ \ {node}]

\* the loop over g.dependencies[node], from position i on
hasCyclesDeps(g, deps, i, st) ==
    IF i > Len(deps) THEN st
    ELSE IF deps[i] \notin st.visited
         THEN LET r == hasCyclesDFS(g, deps[i], st)
              IN  IF r.found THEN r ELSE hasCyclesDeps(g, deps, i + 1, r)
         ELSE IF deps[i] \in st.recStack
              THEN [st EXCEPT !.found = TRUE]
              ELSE hasCyclesDeps(g, deps, i + 1, st)

RECURSIVE hasCyclesLoop(_, _, _, _)
\* the loop of HasCycles over g.jobs, visited in the given order
hasCyclesLoop(g, order, i, st) ==
    IF i > Len(order) THEN FALSE
    ELSE IF order[i] \notin st.visited
         THEN LET r == hasCyclesDFS(g, order[i], st)
              IN  IF r.found THEN TRUE ELSE hasCyclesLoop(g, order, i + 1, r)
         ELSE hasCyclesLoop(g, order, i + 1, st)

HasCyclesNever(g) == {FALSE}

\* the values HasCycles may return, over the orders the map may be visited in
HasCycles(g) ==
    {hasCyclesLoop(g, order, 1, [visited |-> {}, recStack |-> {}, found |-> FALSE]) :
        order \in Perms(DOMAIN g.jobs)}

RECURSIVE addJobs(_, _, _)
addJobs(g, jobs, i) ==
    IF i > Len(jobs) THEN g ELSE addJobs(AddJob(g, jobs[i]), jobs, i + 1)

RECURSIVE addDeps(_, _, _, _)
addDeps(g, jobName, deps, i) ==
    IF i > Len(deps) THEN g
    ELSE addDeps(AddDependency(g, jobName, deps[i]), jobName, deps, i + 1)

RECURSIVE addAllDeps(_, _, _)
addAllDeps(g, jobs, i) ==
    IF i > Len(jobs) THEN g
    ELSE addAllDeps(addDeps(g, jobs[i].Name, jobs[i].DependsOn, 1), jobs, i + 1)

buildDependencyGraph(jobs) == addAllDeps(addJobs(NewJobGraph, jobs, 1), jobs, 1)


(***************************************************************************)
(* Plans: the inputs of Orchestrator.ExecutePlan.                          *)
(***************************************************************************)
Job(name, deps) == [Name |-> name, DependsOn |-> InPoolOrder(deps)]

\* every job list over JobNames with at most MaxDeps dependsOn entries: distinct
\* names, each dependsOn any set of JobNames (a name outside the list is a
\* dependency on an unknown job, a job's own name a dependency on itself)
JobLists ==
    UNION {{[i \in 1..Cardinality(S) |->
                Job(InPoolOrder(S)[i], {e[2] : e \in {x \in E : x[1] = InPoolOrder(S)[i]}})] :
               E \in {D \in SUBSET (S \X JobNames) : Cardinality(D) <= MaxDeps}} :
              S \in SUBSET JobNames}

\* stage shapes used for plans of several stages
SingleJob == <<Job("A", {})>>
ChainJobs == <<Job("A", {}), Job("B", {"A"})>>
SelfCycle == <<Job("A", {"A"})>>
StageShapes == {SingleJob, ChainJobs, SelfCycle}

\* a models.Stage; approvers and the other fields are not read by the engine
Stage(name, requireApproval, jobs) ==
    [Name |-> name, RequireApproval |-> requireApproval, Jobs |-> jobs]

\* stage lists without approval requirement
StageLists(pool, max, shapes) ==
    UNION {{[i \in 1..n |-> Stage(pool[i], FALSE, js[i])] : js \in [1..n -> shapes]} :
              n \in 0..max}

\* stage lists of one-job stages, each with or without approval requirement
ApprovalStageLists(pool, max) ==
    UNION {{[i \in 1..n |-> Stage(pool[i], ra[i], SingleJob)] : ra \in [1..n -> BOOLEAN]} :
              n \in 1..max}

\* plan.Rollback is a pointer: present is FALSE for nil
NoRollback == [present |-> FALSE, Stages |-> <<>>]
Rollbacks ==
    {NoRollback} \cup
    {[present |-> TRUE, Stages |-> st] :
        st \in StageLists(RollbackNamePool, MaxRollbackStages, StageShapes)}

Plans ==
    {[Stages |-> st, Rollback |-> rb] :
        st \in StageLists(StageNamePool, MaxStages, StageShapes), rb \in Rollbacks}
    \cup
    {[Stages |-> <<Stage(StageNamePool[1], FALSE, js)>>, Rollback |-> NoRollback] :
        js \in JobLists}

\* plans with stages that require approval, without and with a rollback plan
ApprovalPlans ==
    {[Stages |-> st, Rollback |-> rb] :
        st \in ApprovalStageLists(StageNamePool, MaxStages),
        rb \in {NoRollback,
                [present |-> TRUE, Stages |-> <<Stage(RollbackNamePool[1], TRUE, SingleJob)>>]}}

ExecuteOptions == [AutoRollback : BOOLEAN, SkipApproval : BOOLEAN, DryRun : BOOLEAN]

\* models.ApprovalStatus: the state of the approval request of a stage
ApprovalStatuses == {"pending", "approved", "rejected", "expired"}

(***************************************************************************)
(* What plugins.Manager.ExecutePlugin may return to Executor.executeJob:   *)
(* a result with Success set, a result with Success unset, or an error;    *)
(* invoked lists the capabilities of the handler it called on the way.     *)
(***************************************************************************)
PluginReturns ==
    {[err |-> Nil, Success |-> TRUE, Message |-> "applied",
      invoked |-> <<"Validate", "Execute">>],
     [err |-> Nil, Success |-> FALSE, Message |-> "unhealthy",
      invoked |-> <<"Validate", "Execute">>],
     [err |-> "invalid configuration: missing required field: action",
      Success |-> FALSE, Message |-> "", invoked |-> <<"Validate">>]}

\* the zero value of models.JobResult, what make([]models.JobResult, n) holds
ZeroJobResult == [Name |-> "", Success |-> FALSE, Message |-> ""]

\* a result with Success unset counts as a success
executeJobIgnoringSuccess(ret) ==
    IF ret.err # Nil
    THEN [Success |-> FALSE, Message |-> "Failed to execute job: " \o ret.err]
    ELSE [Success |-> TRUE, Message |-> ret.Message]

\* (success, message) of Executor.executeJob for a return of ExecutePlugin
executeJob(ret) ==
    IF ret.err # Nil
    THEN [Success |-> FALSE, Message |-> "Failed to execute job: " \o ret.err]
    ELSE IF ~ret.Success
         THEN [Success |-> FALSE, Message |-> ret.Message]
         ELSE [Success |-> TRUE, Message |-> ret.Message]

VARIABLES
    plan,         \* the plan given to ExecutePlan
    options,      \* the ExecuteOptions given to ExecutePlan
    pc,           \* where ExecutePlan stands
    caller,       \* who called ExecuteGraph: "executeStage" or "executeRollback"
    stageIdx,     \* index of the forward stage the loop of ExecutePlan is at
    rbIdx,        \* index of the rollback stage the loop of executeRollback is at
    graph,        \* the JobGraph of the running ExecuteGraph call
    dryRun,       \* the dryRun argument of the running ExecuteGraph call
    readyJobs,    \* readyJobs of ExecuteGraph: the names, in dispatch order
    jobResults,   \* jobResults of ExecuteGraph: the slots of the current wave
    running,      \* the goroutines that have not finished: [call, wave, slot]
    waveNo,       \* number of waves dispatched by the running ExecuteGraph call
    stageResult,  \* the StageResult ExecuteGraph appends to
    graphErr,     \* the error the last ExecuteGraph call returned
    stageErr,     \* stageErr of ExecutePlan
    result,       \* the ExecutionResult of ExecutePlan
    retErr,       \* the error ExecutePlan returned
    dispatched,   \* history: the goroutines started, in order
    finished,     \* history: the outcome of every goroutine that has ended, with the
                  \* handler capabilities it invoked and its rank among the ended
    calls,        \* history: the ExecuteGraph calls made, in order
    graphErrs,    \* history: what each ExecuteGraph call returned, in order
    approval,     \* environment: the ApprovalStatus the approvers give the run's requests
    approvalsAsked, \* history: the stages ExecutePlan printed "requires approval" for
    cancelled,    \* the context of the run: <<>> until cancel() is called, then where
                  \* ExecuteGraph stood at that moment
    registry,     \* plugins.Manager.registry: plugin name -> plugin
    mutex,        \* plugins.Manager.mutex: the writer (0 for none) and the readers
    threads,      \* the goroutines calling the Manager: position, call, locals, result
    ncalls,       \* number of Manager calls made
    managerLog,   \* history: the RegisterPlugin and LoadPlugins calls that have run
                  \* their body, in order, with what they returned
    resolving,    \* a ResolveValues call: its arguments, where it stands, what it returned
    jobGraph,     \* a JobGraph and what the last calls of its methods returned
    validating,   \* a ValidatePlan call: its argument, where it stands, what it returned
    executing     \* an executeJob call: its arguments, where it stands, what it returned

vars == <<plan, options, pc, caller, stageIdx, rbIdx, graph, dryRun, readyJobs,
          jobResults, running, waveNo, stageResult, graphErr, stageErr, result,
          retErr, dispatched, finished, calls, graphErrs, approval, approvalsAsked,
          cancelled, registry, mutex, threads, ncalls, managerLog, resolving,
          jobGraph, validating, executing>>

\* the state of the plugin manager and of its callers
managerVars == <<registry, mutex, threads, ncalls, managerLog>>

\* the state of the calls of the resolver, of a JobGraph, of the validator and of
\* executeJob
libVars == <<resolving, jobGraph, validating, executing>>

\* no such call is made
Unused == [pc |-> "unused"]

LibUnused ==
    resolving = Unused /\ jobGraph = Unused /\ validating = Unused /\ executing = Unused

\* the state of ExecutePlan
engineVars == <<plan, options, pc, caller, stageIdx, rbIdx, graph, dryRun, readyJobs,
                jobResults, running, waveNo, stageResult, graphErr, stageErr, result,
                retErr, dispatched, finished, calls, graphErrs, approval, approvalsAsked,
                cancelled>>

(***************************************************************************)
(* plugins.Manager: the registry, its RWMutex and the goroutines that call *)
(* the manager.                                                            *)
(***************************************************************************)
Threads == 1..MaxThreads

\* a plugin.Plugin: Name(), what Validate returns and what Execute returns; id tells
\* apart two plugin values of the same name
Plugin(name, id, validateErr, executeErr) ==
    [name |-> name, id |-> id, validateErr |-> validateErr, executeErr |-> executeErr]

PluginPool ==
    {Plugin("kubernetes", 1, Nil, Nil),
     Plugin("kubernetes", 2, "missing required field: action", Nil),
     Plugin("http", 3, Nil, "connection refused")}

PluginNames == {p.name : p \in PluginPool}

\* the nil plugin.Plugin
NilPlugin == Plugin("", 0, Nil, Nil)

\* what LoadPlugins may find: no directory, or .so files, each of which opens and
\* exports a Plugin or does not
PluginDirs ==
    {[exists |-> FALSE, files |-> <<>>],
     [exists |-> TRUE, files |-> <<[ok |-> TRUE, plugin |-> Plugin("kubernetes", 2,
                                       "missing required field: action", Nil)]>>],
     [exists |-> TRUE, files |-> <<[ok |-> FALSE, plugin |-> NilPlugin],
                                   [ok |-> TRUE, plugin |-> Plugin("http", 3, Nil,
                                       "connection refused")]>>]}

\* a goroutine that is not in a call of the manager
IdleThread ==
    [pc |-> "idle", op |-> "", name |-> "", config |-> "", param |-> NilPlugin,
     dir |-> [exists |-> FALSE, files |-> <<>>], plg |-> NilPlugin, seen |-> <<>>,
     list |-> <<>>, err |-> Nil, success |-> FALSE, trace |-> <<>>]

\* the job configurations ExecutePlugin is called with
Configs == {"action: apply", "action: delete"}

\* the calls of the manager a goroutine may make, with their arguments
ManagerCalls ==
    {[IdleThread EXCEPT !.pc = "Lock", !.op = "RegisterPlugin", !.param = p] :
        p \in PluginPool}
    \cup {[IdleThread EXCEPT !.pc = "Lock", !.op = "LoadPlugins", !.dir = d] :
            d \in PluginDirs}
    \cup {[IdleThread EXCEPT !.pc = "RLock", !.op = "GetPlugin", !.name = n] :
            n \in PluginNames}
    \cup {[IdleThread EXCEPT !.pc = "RLock", !.op = "ListPlugins"]}
    \cup {[IdleThread EXCEPT !.pc = "RLock", !.op = "ExecutePlugin", !.name = n,
                             !.config = c] : n \in PluginNames, c \in Configs}

\* NewManager: an empty registry, an unlocked mutex
NewManager ==
    /\ registry = <<>>
    /\ mutex = [writer |-> 0, readers |-> {}]
    /\ threads = [t \in Threads |-> IdleThread]
    /\ ncalls = 0
    /\ managerLog = <<>>

\* the stages are counted instead of their jobs
countTotalJobsCountingStages(stages, i) == Len(stages) + 1 - i

RECURSIVE countTotalJobs(_, _)
countTotalJobs(stages, i) ==
    IF i > Len(stages) THEN 0 ELSE Len(stages[i].Jobs) + countTotalJobs(stages, i + 1)

\* the locals of ExecutePlan when it is entered, and the empty histories
ExecutePlanEntered ==
    /\ approvalsAsked = <<>>
    /\ cancelled = <<>>
    /\ pc = "forward"
    /\ caller = "executeStage"
    /\ stageIdx = 1
    /\ rbIdx = 1
    /\ graph = NewJobGraph
    /\ dryRun = FALSE
    /\ readyJobs = <<>>
    /\ jobResults = <<>>
    /\ running = {}
    /\ waveNo = 0
    /\ stageResult = [Name |-> "", Success |-> FALSE, Jobs |-> <<>>]
    /\ graphErr = Nil
    /\ stageErr = Nil
    /\ result = [Success |-> FALSE,
                 TotalStages |-> Len(plan.Stages),
                 TotalJobs |-> countTotalJobs(plan.Stages, 1),
                 CompletedJobs |-> 0,
                 FailedJobs |-> 0,
                 Stages |-> <<>>]
    /\ retErr = Nil
    /\ dispatched = <<>>
    /\ finished = {}
    /\ calls = <<>>
    /\ graphErrs = <<>>

\* ExecutePlan is entered.  A plan without approval requirement is run with
\* SkipApproval unset (the option is read for no other stage); a plan with
\* approval requirements is run with every option and every approval status.
EngineInit ==
    /\ \/ /\ plan \in Plans
          /\ options \in {o \in ExecuteOptions : ~o.SkipApproval}
          /\ approval = "approved"
       \/ /\ plan \in ApprovalPlans
          /\ options \in ExecuteOptions
          /\ approval \in ApprovalStatuses
    /\ ExecutePlanEntered

\* the run command: the plan is loaded, the manager created, ExecutePlan entered
Init == EngineInit /\ NewManager /\ LibUnused

(***************************************************************************)
(* engine.Executor.ExecuteGraph                                            *)
(***************************************************************************)
\* wg.Wait() returns: every goroutine of the wave has called wg.Done()
WaveDoneAfterFirst ==
    running # {[call |-> Len(calls), wave |-> waveNo, slot |-> i] : i \in 1..Len(readyJobs)}

\* the results are processed without waiting for the goroutines
WaveDoneWithoutWait == TRUE

WaveDone == running = {}

\* the loop "for len(readyJobs) > 0" after wave number wave: start a goroutine per
\* ready job and block in wg.Wait(), or leave the loop and return nil
StartWave(g, ready, wave, who) ==
    /\ graph' = g
    /\ readyJobs' = ready
    /\ IF Len(ready) > 0
       THEN /\ pc' = "wave"
            /\ waveNo' = wave + 1
            /\ jobResults' = [i \in 1..Len(ready) |-> ZeroJobResult]
            /\ running' = running \cup
                   {[call |-> Len(calls'), wave |-> wave + 1, slot |-> i] :
                       i \in 1..Len(ready)}
            /\ dispatched' = dispatched \o
                   [i \in 1..Len(ready) |->
                       [caller |-> who, call |-> Len(calls'), wave |-> wave + 1,
                        job |-> ready[i]]]
            /\ UNCHANGED <<graphErr, graphErrs>>
       ELSE /\ pc' = "returned"
            /\ waveNo' = wave
            /\ jobResults' = <<>>
            /\ graphErr' = Nil
            /\ graphErrs' = Append(graphErrs, Nil)
            /\ UNCHANGED <<running, dispatched>>

\* ExecuteGraph from its call to the first wg.Wait() or to its return: the cycle
\* check and the first wave
ExecuteGraphCalled ==
    /\ pc = "execute"
    /\ UNCHANGED <<approval, approvalsAsked, cancelled, managerVars, libVars>>
    /\ UNCHANGED <<plan, options, caller, stageIdx, rbIdx, dryRun, stageResult, stageErr,
                   result, retErr, finished, calls>>
    /\ \E cyclic \in HasCycles(graph) :
           IF cyclic
           THEN /\ graphErr' = "dependency cycle detected in job graph"
                /\ graphErrs' = Append(graphErrs, "dependency cycle detected in job graph")
                /\ pc' = "returned"
                /\ UNCHANGED <<graph, readyJobs, jobResults, running, waveNo, dispatched>>
           ELSE \E ready \in GetReadyJobs(graph) : StartWave(graph, ready, 0, caller)

\* the goroutine of slot i ends: it has run the job and stored its result
RunJob(i) ==
    /\ [call |-> Len(calls), wave |-> waveNo, slot |-> i] \in running
    /\ UNCHANGED <<approval, approvalsAsked, cancelled, managerVars, libVars>>
    /\ \E ret \in PluginReturns :
           LET outcome == IF dryRun
                          THEN [Success |-> TRUE, Message |-> "Dry run simulation"]
                          ELSE executeJob(ret)
               res == [Name |-> readyJobs[i],
                       Success |-> outcome.Success,
                       Message |-> outcome.Message]
           IN  /\ jobResults' = [jobResults EXCEPT ![i] = res]
               /\ finished' = finished \cup
                      {[call |-> Len(calls), wave |-> waveNo, slot |-> i, result |-> res,
                        handlers |-> IF dryRun THEN <<>> ELSE ret.invoked,
                        rank |-> Cardinality(finished) + 1]}
    /\ running' = running \ {[call |-> Len(calls), wave |-> waveNo, slot |-> i]}
    /\ UNCHANGED <<plan, options, pc, caller, stageIdx, rbIdx, graph, dryRun, readyJobs,
                   waveNo, stageResult, graphErr, stageErr, result, retErr, dispatched,
                   calls, graphErrs>>

RECURSIVE processResultsMarkAll(_, _, _, _)
processResultsMarkAll(g, jobs, results, i) ==
    IF i > Len(results) THEN [graph |-> g, Jobs |-> jobs, err |-> Nil]
    ELSE processResultsMarkAll(MarkCompleted(g, results[i].Name),
                               Append(jobs, results[i]), results, i + 1)

RECURSIVE processResultsLastFailure(_, _, _, _)
processResultsLastFailure(g, jobs, results, i) ==
    IF i > Len(results) THEN [graph |-> g, Jobs |-> jobs, err |-> Nil]
    ELSE LET rest == processResultsLastFailure(
                         IF results[i].Success THEN MarkCompleted(g, results[i].Name) ELSE g,
                         Append(jobs, results[i]), results, i + 1)
         IN  IF results[i].Success \/ rest.err # Nil THEN rest
             ELSE [rest EXCEPT !.err = "job " \o results[i].Name \o " failed: "
                                          \o results[i].Message]

RECURSIVE processResultsReversed(_, _, _, _)
processResultsReversed(g, jobs, results, i) ==
    IF i > Len(results) THEN [graph |-> g, Jobs |-> jobs, err |-> Nil]
    ELSE LET r == results[Len(results) + 1 - i]
         IN  IF r.Success
             THEN processResultsReversed(MarkCompleted(g, r.Name), Append(jobs, r),
                                         results, i + 1)
             ELSE [graph |-> g,
                   Jobs |-> Append(jobs, r),
                   err |-> "job " \o r.Name \o " failed: " \o r.Message]

\* a wave with a failure marks none of its jobs
processResultsAllOrNothing(g, jobs, results, i) ==
    LET failed == {k \in i..Len(results) : ~results[k].Success}
    IN  IF failed = {}
        THEN [graph |-> [g EXCEPT !.completed =
                             @ \cup {results[k].Name : k \in i..Len(results)}],
              Jobs |-> jobs \o SubSeq(results, i, Len(results)),
              err |-> Nil]
        ELSE LET f == CHOOSE k \in failed : \A l \in failed : k <= l
             IN  [graph |-> g,
                  Jobs |-> jobs \o SubSeq(results, i, f),
                  err |-> "job " \o results[f].Name \o " failed: " \o results[f].Message]

\* every result of the wave is appended, then the first failure is returned
processResultsAppendingAll(g, jobs, results, i) ==
    LET failed == {k \in i..Len(results) : ~results[k].Success}
        last == IF failed = {} THEN Len(results)
                ELSE (CHOOSE k \in failed : \A l \in failed : k <= l) - 1
    IN  [graph |-> [g EXCEPT !.completed = @ \cup {results[k].Name : k \in i..last}],
         Jobs |-> jobs \o SubSeq(results, i, Len(results)),
         err |-> IF failed = {} THEN Nil
                 ELSE "job " \o results[last + 1].Name \o " failed: "
                          \o results[last + 1].Message]

RECURSIVE processResults(_, _, _, _)
\* the loop "for _, result := range jobResults", from position i on
processResults(g, jobs, results, i) ==
    IF i > Len(results) THEN [graph |-> g, Jobs |-> jobs, err |-> Nil]
    ELSE IF results[i].Success
         THEN processResults(MarkCompleted(g, results[i].Name),
                             Append(jobs, results[i]), results, i + 1)
         ELSE [graph |-> g,
               Jobs |-> Append(jobs, results[i]),
               err |-> "job " \o results[i].Name \o " failed: " \o results[i].Message]

\* ExecuteGraph from the return of wg.Wait() to the next wg.Wait() or to its return
WaveFinished ==
    /\ pc = "wave"
    /\ WaveDone
    /\ UNCHANGED <<approval, approvalsAsked, cancelled, managerVars, libVars>>
    /\ UNCHANGED <<plan, options, caller, stageIdx, rbIdx, dryRun, stageErr, result,
                   retErr, finished, calls>>
    /\ LET r == processResults(graph, stageResult.Jobs, jobResults, 1)
       IN  /\ stageResult' = [stageResult EXCEPT !.Jobs = r.Jobs]
           /\ IF r.err # Nil
              THEN /\ graph' = r.graph
                   /\ graphErr' = r.err
                   /\ graphErrs' = Append(graphErrs, r.err)
                   /\ pc' = "returned"
                   /\ readyJobs' = <<>>
                   /\ jobResults' = <<>>
                   /\ UNCHANGED <<running, waveNo, dispatched>>
              ELSE \E ready \in GetReadyJobs(r.graph) :
                       StartWave(r.graph, ready, waveNo, caller)

(***************************************************************************)
(* engine.Orchestrator                                                     *)
(***************************************************************************)
countJobsOfLastStage(stages, success, i, j) ==
    IF Len(stages) = 0 THEN 0
    ELSE Cardinality({k \in 1..Len(stages[Len(stages)].Jobs) :
                         stages[Len(stages)].Jobs[k].Success = success})

RECURSIVE countJobs(_, _, _, _)
\* the counting loops of finalizeResult: results with Success = success
countJobs(stages, success, i, j) ==
    IF i > Len(stages) THEN 0
    ELSE IF j > Len(stages[i].Jobs) THEN countJobs(stages, success, i + 1, 1)
    ELSE (IF stages[i].Jobs[j].Success = success THEN 1 ELSE 0)
         + countJobs(stages, success, i, j + 1)

finalizeResult(res, success, message) ==
    [result |-> [res EXCEPT !.Success = success,
                            !.CompletedJobs = @ + countJobs(res.Stages, TRUE, 1, 1),
                            !.FailedJobs = @ + countJobs(res.Stages, FALSE, 1, 1)],
     err |-> IF ~success THEN message ELSE Nil]

\* "if stage.RequireApproval && !options.SkipApproval" of ExecutePlan
ApprovalRequired(stage, opts) == stage.RequireApproval /\ ~opts.SkipApproval

\* the graph of a stage keeps the completion marks of the graph before it
StartStageKeepingCompleted ==
    /\ pc = "forward"
    /\ stageIdx <= Len(plan.Stages)
    /\ caller' = "executeStage"
    /\ calls' = Append(calls, [caller |-> "executeStage", stage |-> stageIdx])
    /\ stageResult' = [Name |-> plan.Stages[stageIdx].Name, Success |-> FALSE, Jobs |-> <<>>]
    /\ dryRun' = options.DryRun
    /\ graph' = [buildDependencyGraph(plan.Stages[stageIdx].Jobs)
                     EXCEPT !.completed = graph.completed]
    /\ readyJobs' = <<>>
    /\ jobResults' = <<>>
    /\ waveNo' = 0
    /\ pc' = "execute"
    /\ approvalsAsked' = IF ApprovalRequired(plan.Stages[stageIdx], options)
                         THEN Append(approvalsAsked, stageIdx)
                         ELSE approvalsAsked
    /\ UNCHANGED <<plan, options, stageIdx, rbIdx, running, graphErr, stageErr, result,
                   retErr, dispatched, finished, graphErrs, approval, cancelled,
                   managerVars, libVars>>

\* the body of the loop of ExecutePlan and executeStage up to the call of ExecuteGraph:
\* when approval is required two lines are printed ("requires approval", "approved"),
\* no approval is requested and no answer is read; then the stage is executed
StartStage ==
    /\ pc = "forward"
    /\ stageIdx <= Len(plan.Stages)
    /\ caller' = "executeStage"
    /\ calls' = Append(calls, [caller |-> "executeStage", stage |-> stageIdx])
    /\ stageResult' = [Name |-> plan.Stages[stageIdx].Name, Success |-> FALSE, Jobs |-> <<>>]
    /\ dryRun' = options.DryRun
    /\ graph' = buildDependencyGraph(plan.Stages[stageIdx].Jobs)
    /\ readyJobs' = <<>>
    /\ jobResults' = <<>>
    /\ waveNo' = 0
    /\ pc' = "execute"
    /\ approvalsAsked' = IF ApprovalRequired(plan.Stages[stageIdx], options)
                         THEN Append(approvalsAsked, stageIdx)
                         ELSE approvalsAsked
    /\ UNCHANGED <<plan, options, stageIdx, rbIdx, running, graphErr, stageErr, result,
                   retErr, dispatched, finished, graphErrs, approval, cancelled,
                   managerVars, libVars>>

\* "if stageErr != nil" of ExecutePlan
StageFailedNever(err) == FALSE

StageFailed(err) == err # Nil

\* the message ExecutePlan gives finalizeResult for a failed stage
StageFailureOfLastCall(name, err) == "Stage " \o name \o " failed: " \o graphErr

StageFailure(name, err) == "Stage " \o name \o " failed: " \o err

\* the rollback stage the loop of executeRollback goes to after stage i of n, whose
\* ExecuteGraph returned err: an error is printed and the loop goes on
NextRollbackStageUnlessFailed(i, n, err) == IF err # Nil THEN n + 1 ELSE i + 1

NextRollbackStage(i, n, err) == i + 1

\* executeRollback is called when the stage failed, AutoRollback is set and the
\* plan has a Rollback
RollbackOnAnyFailure(opts, p) == TRUE

RollbackConfigured(opts, p) == opts.AutoRollback /\ p.Rollback.present

\* "result.Stages = append(result.Stages, stageResult)" of ExecutePlan
RecordStageIfSuccessful(res, sr) ==
    IF sr.Success THEN [res EXCEPT !.Stages = Append(@, sr)] ELSE res

RecordStage(res, sr) == [res EXCEPT !.Stages = Append(@, sr)]

\* ExecutePlan from the return of executeStage: the stage result is recorded, and
\* the loop goes on, or executeRollback is entered, or ExecutePlan returns
StageReturned ==
    /\ pc = "returned"
    /\ caller = "executeStage"
    /\ UNCHANGED <<approval, approvalsAsked, cancelled, managerVars, libVars>>
    /\ stageErr' = graphErr
    /\ LET sr == [stageResult EXCEPT !.Success = (graphErr = Nil)]
           res == RecordStage(result, sr)
       IN  IF StageFailed(graphErr)
           THEN IF RollbackConfigured(options, plan)
                THEN /\ result' = res
                     /\ pc' = "rollback"
                     /\ rbIdx' = 1
                     /\ UNCHANGED <<stageIdx, retErr>>
                ELSE LET f == finalizeResult(res, FALSE,
                                  StageFailure(plan.Stages[stageIdx].Name, graphErr))
                     IN  /\ result' = f.result
                         /\ retErr' = f.err
                         /\ pc' = "done"
                         /\ UNCHANGED <<stageIdx, rbIdx>>
           ELSE /\ result' = res
                /\ stageIdx' = stageIdx + 1
                /\ pc' = "forward"
                /\ UNCHANGED <<rbIdx, retErr>>
    /\ UNCHANGED <<plan, options, caller, graph, dryRun, readyJobs, jobResults, running,
                   waveNo, stageResult, graphErr, dispatched, finished, calls,
                   graphErrs>>

\* ExecutePlan after the last stage
PlanSucceeded ==
    /\ pc = "forward"
    /\ stageIdx > Len(plan.Stages)
    /\ UNCHANGED <<approval, approvalsAsked, cancelled, managerVars, libVars>>
    /\ LET f == finalizeResult(result, TRUE, "Plan execution completed successfully")
       IN  /\ result' = f.result
           /\ retErr' = f.err
    /\ pc' = "done"
    /\ UNCHANGED <<plan, options, caller, stageIdx, rbIdx, graph, dryRun, readyJobs,
                   jobResults, running, waveNo, stageResult, graphErr, stageErr,
                   dispatched, finished, calls, graphErrs>>

\* the body of the loop of executeRollback up to the call of ExecuteGraph
StartRollbackStage ==
    /\ pc = "rollback"
    /\ rbIdx <= Len(plan.Rollback.Stages)
    /\ caller' = "executeRollback"
    /\ calls' = Append(calls, [caller |-> "executeRollback", stage |-> rbIdx])
    /\ stageResult' = [Name |-> plan.Rollback.Stages[rbIdx].Name, Success |-> FALSE,
                       Jobs |-> <<>>]
    /\ dryRun' = FALSE
    /\ graph' = buildDependencyGraph(plan.Rollback.Stages[rbIdx].Jobs)
    /\ readyJobs' = <<>>
    /\ jobResults' = <<>>
    /\ waveNo' = 0
    /\ pc' = "execute"
    /\ UNCHANGED <<plan, options, stageIdx, rbIdx, running, graphErr, stageErr, result,
                   retErr, dispatched, finished, graphErrs, approval, approvalsAsked,
                   cancelled, managerVars, libVars>>

\* the result of a rollback stage is appended to the stages of the ExecutionResult
RollbackStageReturnedRecording ==
    /\ pc = "returned"
    /\ caller = "executeRollback"
    /\ UNCHANGED <<approval, approvalsAsked, cancelled, managerVars, libVars>>
    /\ rbIdx' = rbIdx + 1
    /\ result' = [result EXCEPT !.Stages = Append(@, stageResult)]
    /\ pc' = "rollback"
    /\ UNCHANGED <<plan, options, caller, stageIdx, graph, dryRun, readyJobs, jobResults,
                   running, waveNo, stageResult, graphErr, stageErr, retErr,
                   dispatched, finished, calls, graphErrs>>

\* the loop of executeRollback after ExecuteGraph returned: an error is only printed
RollbackStageReturned ==
    /\ pc = "returned"
    /\ caller = "executeRollback"
    /\ UNCHANGED <<approval, approvalsAsked, cancelled, managerVars, libVars>>
    /\ rbIdx' = NextRollbackStage(rbIdx, Len(plan.Rollback.Stages), graphErr)
    /\ pc' = "rollback"
    /\ UNCHANGED <<plan, options, caller, stageIdx, graph, dryRun, readyJobs, jobResults,
                   running, waveNo, stageResult, graphErr, stageErr, result, retErr,
                   dispatched, finished, calls, graphErrs>>

\* executeRollback returns nil and ExecutePlan returns the failure of the stage
RollbackFinished ==
    /\ pc = "rollback"
    /\ rbIdx > Len(plan.Rollback.Stages)
    /\ UNCHANGED <<approval, approvalsAsked, cancelled, managerVars, libVars>>
    /\ LET f == finalizeResult(result, FALSE,
                    StageFailure(plan.Stages[stageIdx].Name, stageErr))
       IN  /\ result' = f.result
           /\ retErr' = f.err
    /\ pc' = "done"
    /\ UNCHANGED <<plan, options, caller, stageIdx, rbIdx, graph, dryRun, readyJobs,
                   jobResults, running, waveNo, stageResult, graphErr, stageErr,
                   dispatched, finished, calls, graphErrs>>

Next ==
    \/ StartStage
    \/ ExecuteGraphCalled
    \/ \E i \in 1..MaxJobs : RunJob(i)
    \/ WaveFinished
    \/ StageReturned
    \/ PlanSucceeded
    \/ StartRollbackStage
    \/ RollbackStageReturned
    \/ RollbackFinished

Spec == Init /\ [][Next]_vars

\* the signal goroutine of the run command calls cancel() of the context given to
\* ExecutePlan; neither ExecutePlan nor ExecuteGraph reads ctx.Done() or ctx.Err()
Cancel ==
    /\ pc # "done"
    /\ cancelled = <<>>
    /\ cancelled' = <<[call |-> Len(calls), wave |-> waveNo, inFlight |-> pc = "wave"]>>
    /\ UNCHANGED <<plan, options, pc, caller, stageIdx, rbIdx, graph, dryRun, readyJobs,
                   jobResults, running, waveNo, stageResult, graphErr, stageErr, result,
                   retErr, dispatched, finished, calls, graphErrs, approval,
                   approvalsAsked, managerVars, libVars>>

CancelNext == Next \/ Cancel

\* a run during which SIGINT or SIGTERM may arrive
CancelSpec == Init /\ [][CancelNext]_vars

\* every goroutine runs to its end (the handlers return) and the thread that
\* called ExecutePlan keeps running
FairSpec ==
    /\ Spec
    /\ \A i \in 1..MaxJobs : WF_vars(RunJob(i))
    /\ WF_vars(ExecuteGraphCalled)
    /\ WF_vars(WaveFinished)
    /\ WF_vars(StartStage)
    /\ WF_vars(StageReturned)
    /\ WF_vars(PlanSucceeded)
    /\ WF_vars(StartRollbackStage)
    /\ WF_vars(RollbackStageReturned)
    /\ WF_vars(RollbackFinished)

(***************************************************************************)
(* plugins.Manager: its operations on the registry, then the steps of the  *)
(* goroutines that call it.                                                *)
(***************************************************************************)
\* "if _, exists := pm.registry[name]; exists" of RegisterPlugin
AlreadyRegisteredNever(reg, name) == FALSE

AlreadyRegistered(reg, name) == name \in DOMAIN reg

\* the body of RegisterPlugin: the registry after it and the error returned
RegisterPlugin(reg, plg) ==
    IF AlreadyRegistered(reg, plg.name)
    THEN [registry |-> reg, err |-> "plugin " \o plg.name \o " is already registered"]
    ELSE [registry |-> Store(reg, plg.name, plg), err |-> Nil]

\* loadPlugin for a .so file: the plugin is stored under its name, whatever is there
loadPlugin(reg, file) ==
    IF ~file.ok
    THEN [registry |-> reg, err |-> "failed to open plugin"]
    ELSE [registry |-> Store(reg, file.plugin.name, file.plugin), err |-> Nil]

RECURSIVE loadPluginsLoop(_, _, _)
\* the loop of LoadPlugins over the files: a failed file is skipped with a warning
loadPluginsLoop(reg, files, i) ==
    IF i > Len(files) THEN reg
    ELSE loadPluginsLoop(loadPlugin(reg, files[i]).registry, files, i + 1)

\* the body of LoadPlugins
LoadPlugins(reg, dir) ==
    IF ~dir.exists
    THEN [registry |-> reg, err |-> "plugin directory does not exist: ./plugins"]
    ELSE [registry |-> loadPluginsLoop(reg, dir.files, 1), err |-> Nil]

\* GetPlugin that returns whatever plugin the registry holds
GetPluginOfAnyName(reg, name) ==
    IF DOMAIN reg # {}
    THEN [plg |-> reg[CHOOSE n \in DOMAIN reg : TRUE], err |-> Nil]
    ELSE [plg |-> NilPlugin, err |-> "plugin " \o name \o " not found"]

\* the body of GetPlugin
GetPlugin(reg, name) ==
    IF name \in DOMAIN reg
    THEN [plg |-> reg[name], err |-> Nil]
    ELSE [plg |-> NilPlugin, err |-> "plugin " \o name \o " not found"]

\* the slices ListPlugins may return: the plugins, in any map order
ListPlugins(reg) == Perms({reg[n] : n \in DOMAIN reg})

\* sync.RWMutex: Lock() returns when there is no writer and no reader
CanLockDespiteReaders(m) == m.writer = 0

CanLock(m) == m.writer = 0 /\ m.readers = {}

\* sync.RWMutex: RLock() returns when there is no writer (a waiting writer holds
\* back new readers in Go; leaving that out only adds interleavings)
CanRLock(m) == m.writer = 0

\* "if err := plg.Validate(execCtx, config); err != nil" of ExecutePlugin
ValidationFailedNever(err) == FALSE

ValidationFailed(err) == err # Nil

\* a goroutine calls the manager
ManagerCall(t) ==
    /\ threads[t].pc = "idle"
    /\ ncalls < MaxCalls
    /\ ncalls' = ncalls + 1
    /\ \E c \in ManagerCalls : threads' = [threads EXCEPT ![t] = c]
    /\ UNCHANGED <<registry, mutex, managerLog, engineVars, libVars>>

\* pm.mutex.Lock() of RegisterPlugin and LoadPlugins returns
Lock(t) ==
    /\ threads[t].pc = "Lock"
    /\ CanLock(mutex)
    /\ mutex' = [mutex EXCEPT !.writer = t]
    /\ threads' = [threads EXCEPT ![t].pc = "locked", ![t].seen = registry]
    /\ UNCHANGED <<registry, ncalls, managerLog, engineVars, libVars>>

\* the body of RegisterPlugin or LoadPlugins, under the write lock
WriteRegistry(t) ==
    /\ threads[t].pc = "locked"
    /\ LET r == IF threads[t].op = "RegisterPlugin"
                THEN RegisterPlugin(registry, threads[t].param)
                ELSE LoadPlugins(registry, threads[t].dir)
       IN  /\ registry' = r.registry
           /\ threads' = [threads EXCEPT ![t].pc = "Unlock", ![t].err = r.err]
           /\ managerLog' = Append(managerLog,
                  [op |-> threads[t].op, param |-> threads[t].param, err |-> r.err])
    /\ UNCHANGED <<mutex, ncalls, engineVars, libVars>>

\* the deferred pm.mutex.Unlock(), and the return
Unlock(t) ==
    /\ threads[t].pc = "Unlock"
    /\ mutex' = [mutex EXCEPT !.writer = 0]
    /\ threads' = [threads EXCEPT ![t].pc = "idle"]
    /\ UNCHANGED <<registry, ncalls, managerLog, engineVars, libVars>>

\* pm.mutex.RLock() of GetPlugin and ListPlugins returns
RLock(t) ==
    /\ threads[t].pc = "RLock"
    /\ CanRLock(mutex)
    /\ mutex' = [mutex EXCEPT !.readers = @ \cup {t}]
    /\ threads' = [threads EXCEPT ![t].pc = "rlocked", ![t].seen = registry]
    /\ UNCHANGED <<registry, ncalls, managerLog, engineVars, libVars>>

\* the body of GetPlugin or ListPlugins, under the read lock
ReadRegistry(t) ==
    /\ threads[t].pc = "rlocked"
    /\ IF threads[t].op = "ListPlugins"
       THEN \E l \in ListPlugins(registry) :
                threads' = [threads EXCEPT ![t].pc = "RUnlock", ![t].list = l]
       ELSE LET g == GetPlugin(registry, threads[t].name)
            IN  threads' = [threads EXCEPT ![t].pc = "RUnlock", ![t].plg = g.plg,
                                           ![t].err = g.err]
    /\ UNCHANGED <<registry, mutex, ncalls, managerLog, engineVars, libVars>>

\* ExecutePlugin keeps the read lock while it calls the handler
RUnlockAfterHandler(t) ==
    /\ threads[t].pc = "RUnlock"
    /\ mutex' = IF threads[t].op = "ExecutePlugin" /\ threads[t].err = Nil
                THEN mutex
                ELSE [mutex EXCEPT !.readers = @ \ {t}]
    /\ threads' = [threads EXCEPT
                      ![t].pc = IF threads[t].op = "ExecutePlugin" /\ threads[t].err = Nil
                                THEN "Validate" ELSE "idle"]
    /\ UNCHANGED <<registry, ncalls, managerLog, engineVars, libVars>>

\* the deferred pm.mutex.RUnlock() and the return of GetPlugin or ListPlugins;
\* ExecutePlugin goes on without the lock when GetPlugin returned a plugin
RUnlock(t) ==
    /\ threads[t].pc = "RUnlock"
    /\ mutex' = [mutex EXCEPT !.readers = @ \ {t}]
    /\ threads' = [threads EXCEPT
                      ![t].pc = IF threads[t].op = "ExecutePlugin" /\ threads[t].err = Nil
                                THEN "Validate" ELSE "idle"]
    /\ UNCHANGED <<registry, ncalls, managerLog, engineVars, libVars>>

\* ExecutePlugin calls plg.Validate and returns the wrapped error if it fails
Validate(t) ==
    /\ threads[t].pc = "Validate"
    /\ threads' = [threads EXCEPT
           ![t].trace = Append(@, [capability |-> "Validate", plugin |-> threads[t].plg,
                                   config |-> threads[t].config]),
           ![t].err = IF ValidationFailed(threads[t].plg.validateErr)
                      THEN "invalid configuration: " \o threads[t].plg.validateErr
                      ELSE Nil,
           ![t].pc = IF ValidationFailed(threads[t].plg.validateErr)
                     THEN "idle" ELSE "Execute"]
    /\ UNCHANGED <<registry, mutex, ncalls, managerLog, engineVars, libVars>>

\* ExecutePlugin calls plg.Execute and returns what it returns
Execute(t) ==
    /\ threads[t].pc = "Execute"
    /\ threads' = [threads EXCEPT
           ![t].trace = Append(@, [capability |-> "Execute", plugin |-> threads[t].plg,
                                   config |-> threads[t].config]),
           ![t].err = threads[t].plg.executeErr,
           ![t].success = (threads[t].plg.executeErr = Nil),
           ![t].pc = "idle"]
    /\ UNCHANGED <<registry, mutex, ncalls, managerLog, engineVars, libVars>>

ManagerNext ==
    \E t \in Threads :
        \/ ManagerCall(t)
        \/ Lock(t)
        \/ WriteRegistry(t)
        \/ Unlock(t)
        \/ RLock(t)
        \/ ReadRegistry(t)
        \/ RUnlock(t)
        \/ Validate(t)
        \/ Execute(t)

\* a manager as NewManager returns it, called by goroutines while no plan runs
ManagerInit ==
    /\ EngineInit
    /\ plan = [Stages |-> <<>>, Rollback |-> NoRollback]
    /\ options = [AutoRollback |-> FALSE, SkipApproval |-> FALSE, DryRun |-> FALSE]
    /\ NewManager
    /\ LibUnused

ManagerSpec == ManagerInit /\ [][ManagerNext]_vars

(***************************************************************************)
(* Vocabulary of the properties.                                           *)
(***************************************************************************)
\* the job list ExecuteGraph call number n was made for
CallJobs(n) ==
    IF calls[n].caller = "executeStage"
    THEN plan.Stages[calls[n].stage].Jobs
    ELSE plan.Rollback.Stages[calls[n].stage].Jobs

JobNamesOf(jobs) == {jobs[i].Name : i \in 1..Len(jobs)}

\* the dependsOn names of the job called name
DependsOnOf(jobs, name) ==
    UNION {Range(jobs[i].DependsOn) : i \in {k \in 1..Len(jobs) : jobs[k].Name = name}}

\* every dependsOn entry names a job of the list
DepsKnown(jobs) == \A n \in JobNamesOf(jobs) : DependsOnOf(jobs, n) \subseteq JobNamesOf(jobs)

RECURSIVE ReachableFrom(_, _)
\* the names reached from the names of S over one or more dependsOn entries
ReachableFrom(jobs, S) ==
    LET step == S \cup UNION {DependsOnOf(jobs, n) : n \in S}
    IN  IF step = S THEN S ELSE ReachableFrom(jobs, step)

\* some job depends on itself over one or more dependsOn entries
HasDependencyCycle(jobs) ==
    \E n \in JobNamesOf(jobs) : n \in ReachableFrom(jobs, DependsOnOf(jobs, n))

\* positions in dispatched of the goroutines of call n
DispatchedIn(n) == {k \in 1..Len(dispatched) : dispatched[k].call = n}

\* a successful JobResult of the job called name is in jobs
RecordedSuccessful(jobs, name) ==
    \E r \in 1..Len(jobs) : jobs[r].Name = name /\ jobs[r].Success

Recorded(jobs, name) == \E r \in 1..Len(jobs) : jobs[r].Name = name

\* the outcomes of the goroutines of call n that ended with a failure
FailedIn(n) == {f \in finished : f.call = n /\ ~f.result.Success}

\* the calls of executeRollback, in order
RollbackCalls == SelectSeq(calls, LAMBDA c : c.caller = "executeRollback")
ForwardCalls == SelectSeq(calls, LAMBDA c : c.caller = "executeStage")

\* the last ExecuteGraph call has returned
Returned == pc \notin {"execute", "wave"} /\ Len(calls) > 0

(***************************************************************************)
(* C1: a job is dispatched only when every job named in its dependsOn has  *)
(* a successful JobResult in the stage result and is marked completed in   *)
(* the graph.                                                              *)
(***************************************************************************)
C1_DispatchedAfterDependencies ==
    \A k \in DispatchedIn(Len(calls)) :
        \A dep \in DependsOnOf(CallJobs(Len(calls)), dispatched[k].job) :
            /\ Completed(graph, dep)
            /\ RecordedSuccessful(stageResult.Jobs, dep)

\* a job with a dependency is running
C1_Witness ==
    /\ pc = "wave"
    /\ \E t \in running :
           DependsOnOf(CallJobs(Len(calls)), readyJobs[t.slot]) # {}

(***************************************************************************)
(* C2: for a job list whose dependsOn entries name jobs of the list and    *)
(* form no cycle, ExecuteGraph returns, and when it has returned           *)
(* graph.IsCompleted() is true exactly when no dispatched job failed.      *)
(***************************************************************************)
C2_CompletedIffNoFailure ==
    (Returned /\ DepsKnown(CallJobs(Len(calls))) /\ ~HasDependencyCycle(CallJobs(Len(calls))))
        => (IsCompleted(graph) <=> FailedIn(Len(calls)) = {})

C3_CycleRejectedBeforeDispatch ==
    (Len(calls) > 0 /\ HasDependencyCycle(CallJobs(Len(calls))))
        => /\ pc # "wave"
           /\ Returned => graphErrs[Len(calls)] = "dependency cycle detected in job graph"
           /\ DispatchedIn(Len(calls)) = {}
           /\ {f \in finished : f.call = Len(calls)} = {}
           /\ stageResult.Jobs = <<>>
           /\ graph.completed = {}

\* a cycle over three jobs was rejected
C3_Witness ==
    /\ pc = "returned"
    /\ HasDependencyCycle(CallJobs(Len(calls)))
    /\ \A n \in JobNamesOf(CallJobs(Len(calls))) : n \notin DependsOnOf(CallJobs(Len(calls)), n)
    /\ Len(CallJobs(Len(calls))) = 3
    /\ \E n \in JobNamesOf(CallJobs(Len(calls))) : DependsOnOf(CallJobs(Len(calls)), n) = {}

(***************************************************************************)
(* C4: the barrier between waves: while a goroutine has not finished,      *)
(* ExecuteGraph waits in the wave that goroutine belongs to; every         *)
(* goroutine of an earlier wave or call has finished.                      *)
(***************************************************************************)
C4_WaveBarrier ==
    /\ running # {} => pc = "wave"
    /\ \A t \in running : t.call = Len(calls) /\ t.wave = waveNo
    /\ \A k \in 1..Len(dispatched) :
           (dispatched[k].call < Len(calls) \/ dispatched[k].wave < waveNo)
               => \E f \in finished :
                      /\ f.call = dispatched[k].call
                      /\ f.wave = dispatched[k].wave
                      /\ f.result.Name = dispatched[k].job

\* in a second wave one goroutine has failed and another is still running
C4_Witness ==
    /\ pc = "wave"
    /\ waveNo = 2
    /\ \E t \in running : t.wave = 2
    /\ \E f \in FailedIn(Len(calls)) : f.wave = 2

(***************************************************************************)
(* C5: when a job of a wave has failed and ExecuteGraph has returned, the  *)
(* stage result holds a JobResult for every job dispatched in the call.    *)
(***************************************************************************)
C5_EveryDispatchedJobRecorded ==
    (Returned /\ FailedIn(Len(calls)) # {})
        => \A k \in DispatchedIn(Len(calls)) : Recorded(stageResult.Jobs, dispatched[k].job)

(***************************************************************************)
(* C6: after a wave with a failed job, ExecuteGraph dispatches no job of a *)
(* later wave and returns the error "job <name> failed: <message>" of the  *)
(* first failed job in the dispatch order of the wave.                     *)
(***************************************************************************)
FirstFailed(n) ==
    LET failedAt == {k \in DispatchedIn(n) :
                        \E f \in FailedIn(n) : /\ f.wave = dispatched[k].wave
                                               /\ f.result.Name = dispatched[k].job}
        first == CHOOSE k \in failedAt : \A j \in failedAt : k <= j
    IN  CHOOSE f \in FailedIn(n) : /\ f.wave = dispatched[first].wave
                                   /\ f.result.Name = dispatched[first].job

C6_AbortOnFirstFailure ==
    (Returned /\ FailedIn(Len(calls)) # {})
        => /\ graphErrs[Len(calls)] =
                  "job " \o FirstFailed(Len(calls)).result.Name \o " failed: "
                      \o FirstFailed(Len(calls)).result.Message
           /\ \A k \in DispatchedIn(Len(calls)) :
                  \A f \in FailedIn(Len(calls)) : dispatched[k].wave <= f.wave

\* a wave failed while a job of an independent branch had all it depends on completed
C6_Witness ==
    /\ pc = "returned"
    /\ FailedIn(Len(calls)) # {}
    /\ \E n \in DOMAIN graph.jobs :
           /\ \A k \in DispatchedIn(Len(calls)) : dispatched[k].job # n
           /\ DependsOnOf(CallJobs(Len(calls)), n) # {}
           /\ DependsOnOf(CallJobs(Len(calls)), n) \subseteq graph.completed

(***************************************************************************)
(* C7: forward stages run one after another in plan order: the i-th        *)
(* ExecuteGraph call of executeStage is for stage i and is made when every *)
(* earlier stage is recorded successful; every goroutine not yet finished  *)
(* belongs to the stage of the last call; after a failed stage no forward  *)
(* stage is started.                                                       *)
(***************************************************************************)
C7_ForwardStagesSequential ==
    /\ \A n \in 1..Len(ForwardCalls) :
           /\ ForwardCalls[n].stage = n
           /\ calls[n] = ForwardCalls[n]
           /\ \A m \in 1..(n - 1) :
                  /\ m <= Len(result.Stages)
                  /\ result.Stages[m].Name = plan.Stages[m].Name
                  /\ result.Stages[m].Success
                  /\ graphErrs[m] = Nil
    /\ \A t \in running : t.call = Len(calls)
    /\ \A k \in 1..Len(dispatched) :
           dispatched[k].caller = "executeStage"
               => /\ calls[dispatched[k].call] = ForwardCalls[dispatched[k].call]
                  /\ \A j \in 1..k : dispatched[j].call <= dispatched[k].call

\* a job of the second forward stage is running
C7_Witness ==
    /\ pc = "wave"
    /\ caller = "executeStage"
    /\ calls[Len(calls)].stage = 2
    /\ running # {}
    /\ ~dryRun

(***************************************************************************)
(* C8: when a forward stage failed with AutoRollback set and a Rollback    *)
(* defined, ExecutePlan returns after ExecuteGraph was called for every    *)
(* rollback stage, once each and in the order of the rollback plan, also   *)
(* when ExecuteGraph returned an error for an earlier rollback stage.      *)
(***************************************************************************)
C8_EveryRollbackStageRunsOnce ==
    /\ \A k \in 1..Len(RollbackCalls) : RollbackCalls[k].stage = k
    /\ (/\ pc = "done"
        /\ \E m \in 1..Len(result.Stages) : ~result.Stages[m].Success
        /\ options.AutoRollback
        /\ plan.Rollback.present)
           => Len(RollbackCalls) = Len(plan.Rollback.Stages)

\* both stages of a rollback plan ran although the first of them failed
C8_Witness ==
    /\ pc = "done"
    /\ Len(RollbackCalls) = 2
    /\ \E n \in 1..Len(calls) :
           /\ calls[n] = [caller |-> "executeRollback", stage |-> 1]
           /\ graphErrs[n] # Nil
           /\ graphErrs[n + 1] = Nil

(***************************************************************************)
(* C9: after a failed forward stage followed by the rollback, ExecutePlan  *)
(* returns Success = false and the error "Stage <name> failed: <cause>" of *)
(* the failed forward stage, whatever ExecuteGraph returned for the        *)
(* rollback stages.                                                        *)
(***************************************************************************)
C9_RollbackKeepsOriginalFailure ==
    (pc = "done" /\ Len(RollbackCalls) > 0)
        => /\ ~result.Success
           /\ graphErrs[Len(ForwardCalls)] # Nil
           /\ retErr = "Stage " \o plan.Stages[Len(ForwardCalls)].Name \o " failed: "
                           \o graphErrs[Len(ForwardCalls)]

\* ExecutePlan returned after a rollback whose last stage failed in another way
C9_Witness ==
    /\ pc = "done"
    /\ Len(RollbackCalls) > 0
    /\ graphErrs[Len(calls)] # Nil
    /\ graphErrs[Len(calls)] # graphErrs[Len(ForwardCalls)]

(***************************************************************************)
(* C10: ExecuteGraph is called for a rollback stage only after a forward   *)
(* stage was recorded failed, with AutoRollback set and a Rollback         *)
(* defined; the rollback plan is gone through at most once, and no forward *)
(* stage is started after it.                                              *)
(***************************************************************************)
C10_RollbackOnlyWhenConfigured ==
    /\ (pc = "rollback" \/ Len(RollbackCalls) > 0)
           => /\ options.AutoRollback
              /\ plan.Rollback.present
              /\ Len(result.Stages) > 0
              /\ ~result.Stages[Len(result.Stages)].Success
    /\ \A d \in Range(dispatched) :
           d.caller = "executeRollback"
               => /\ options.AutoRollback
                  /\ plan.Rollback.present
                  /\ \E m \in 1..Len(result.Stages) : ~result.Stages[m].Success
    /\ \A i, j \in 1..Len(calls) :
           (i < j /\ calls[i].caller = "executeRollback")
               => /\ calls[j].caller = "executeRollback"
                  /\ calls[j].stage > calls[i].stage

\* a job of a rollback stage is running
C10_Witness ==
    /\ pc = "wave"
    /\ caller = "executeRollback"
    /\ \E t \in running : dispatched[Len(dispatched)].caller = "executeRollback"

(***************************************************************************)
(* C11: for a stage with RequireApproval set and SkipApproval unset,       *)
(* ExecutePlan asks for approval before the stage runs; when the approval  *)
(* is not granted (it is rejected, or the request ends without a grant),   *)
(* no job of that stage or of a later stage is dispatched and the run ends *)
(* failed.                                                                 *)
(***************************************************************************)
C11_RejectedApprovalStopsRun ==
    \A a \in Range(approvalsAsked) :
        approval # "approved"
            => /\ \A k \in 1..Len(dispatched) :
                      dispatched[k].caller = "executeStage"
                          => calls[dispatched[k].call].stage < a
               /\ pc = "done" => (~result.Success /\ retErr # Nil)

(***************************************************************************)
(* C12: in a run of ExecutePlan with DryRun set, no goroutine invokes a    *)
(* handler (Validate or Execute), whichever stage its job belongs to, and  *)
(* every job that has run is reported successful with the message          *)
(* "Dry run simulation".                                                   *)
(***************************************************************************)
C12_DryRunInvokesNoHandler ==
    options.DryRun
        => \A f \in finished :
               /\ f.handlers = <<>>
               /\ f.result.Success
               /\ f.result.Message = "Dry run simulation"

(***************************************************************************)
(* C13: when the context is cancelled while a wave is in flight, the       *)
(* goroutines of that wave run to their end (their results are stored) and *)
(* ExecuteGraph dispatches no job of a later wave.                         *)
(***************************************************************************)
C13_NoWaveAfterCancellation ==
    \A c \in Range(cancelled) :
        c.inFlight
            => /\ \A k \in 1..Len(dispatched) :
                      ~(dispatched[k].call = c.call /\ dispatched[k].wave > c.wave)
               /\ (pc # "wave" \/ Len(calls) > c.call)
                      => \A k \in DispatchedIn(c.call) :
                             \E f \in finished : /\ f.call = c.call
                                                 /\ f.wave = dispatched[k].wave
                                                 /\ f.result.Name = dispatched[k].job

(***************************************************************************)
(* C14: when ExecutePlan returns an error, the ExecutionResult it returns  *)
(* lists exactly the forward stages started, in plan order: all but the    *)
(* last with Success set, the last one, the failed stage, with Success     *)
(* unset.                                                                  *)
(***************************************************************************)
C14_PartialResultOnError ==
    (pc = "done" /\ retErr # Nil)
        => /\ Len(result.Stages) = Len(ForwardCalls)
           /\ Len(result.Stages) > 0
           /\ \A m \in 1..Len(result.Stages) :
                  /\ result.Stages[m].Name = plan.Stages[m].Name
                  /\ result.Stages[m].Success <=> m < Len(result.Stages)

\* ExecutePlan returned an error after a successful first and a failed second stage
C14_Witness ==
    /\ pc = "done"
    /\ retErr # Nil
    /\ Len(result.Stages) = 2
    /\ Len(result.Stages[1].Jobs) > 0
    /\ Len(result.Stages[2].Jobs) > 0

(***************************************************************************)
(* C15: when ExecuteGraph has returned nil, no job is ready and every job  *)
(* registered in the graph is marked completed, for every graph built with *)
(* AddJob and AddDependency, a dependency on an unregistered name          *)
(* included.                                                               *)
(***************************************************************************)
C15_NilOnlyWhenCompleted ==
    (Returned /\ pc = "returned" /\ graphErr = Nil)
        => /\ GetReadyJobs(graph) = {<<>>}
           /\ IsCompleted(graph)

(***************************************************************************)
(* C16: the JobResults of a stage are in dispatch order: the r-th result   *)
(* recorded by an ExecuteGraph call is the result stored by the r-th       *)
(* goroutine the call started, whatever the order in which the goroutines  *)
(* ended, so the results of a wave follow the wave's dispatch list and     *)
(* come after all results of the waves before it; the results of a wave    *)
(* that is over without a failure are all recorded.                        *)
(***************************************************************************)
DispatchedSeq(n) == SelectSeq(dispatched, LAMBDA d : d.call = n)

C16_ResultsInDispatchOrder ==
    Len(calls) > 0
        => LET ds == DispatchedSeq(Len(calls))
           IN  /\ Len(stageResult.Jobs) <= Len(ds)
               /\ \A r \in 1..Len(stageResult.Jobs) :
                      /\ stageResult.Jobs[r].Name = ds[r].job
                      /\ \E f \in finished :
                             /\ f.call = Len(calls)
                             /\ f.wave = ds[r].wave
                             /\ f.result = stageResult.Jobs[r]
               /\ \A k \in 1..Len(ds) :
                      (ds[k].wave < waveNo \/ (Returned /\ graphErr = Nil))
                          => k <= Len(stageResult.Jobs)

\* the two results of a second wave are recorded after the goroutine of the second
\* slot ended before the goroutine of the first
C16_Witness ==
    /\ Returned
    /\ Len(stageResult.Jobs) = 3
    /\ \E f1, f2 \in finished :
           /\ f1.call = Len(calls) /\ f2.call = Len(calls)
           /\ f1.wave = 2 /\ f2.wave = 2
           /\ f1.slot = 1 /\ f2.slot = 2
           /\ f2.rank < f1.rank
           /\ stageResult.Jobs[2] = f1.result
           /\ stageResult.Jobs[3] = f2.result

(***************************************************************************)
(* C17: when ExecutePlan has returned, CompletedJobs is the number of      *)
(* JobResults with Success set and FailedJobs the number of JobResults     *)
(* with Success unset in the stages of the ExecutionResult, after a        *)
(* successful and after a failed run.                                      *)
(***************************************************************************)
JobResultsWith(stages, success) ==
    {p \in (1..Len(stages)) \X (1..MaxJobs) :
        /\ p[2] <= Len(stages[p[1]].Jobs)
        /\ stages[p[1]].Jobs[p[2]].Success = success}

C17_CountsMatchJobResults ==
    pc = "done"
        => /\ result.CompletedJobs = Cardinality(JobResultsWith(result.Stages, TRUE))
           /\ result.FailedJobs = Cardinality(JobResultsWith(result.Stages, FALSE))
           /\ \A m \in 1..Len(result.Stages) : Len(result.Stages[m].Jobs) <= MaxJobs

\* a failed run with successful results in two stages and a failed one
C17_Witness ==
    /\ pc = "done"
    /\ ~result.Success
    /\ Len(result.Stages) = 2
    /\ result.CompletedJobs = 2
    /\ result.FailedJobs = 1
    /\ RecordedSuccessful(result.Stages[2].Jobs, "A")

(***************************************************************************)
(* C18: when RegisterPlugin is called with a name that is registered, it   *)
(* returns the error "plugin <name> is already registered" and the         *)
(* registry is as it was: GetPlugin for the name returns the plugin that   *)
(* was registered before the call.                                         *)
(***************************************************************************)
C18_DuplicateRegistrationRejected ==
    \A t \in Threads :
        (/\ threads[t].op = "RegisterPlugin"
         /\ threads[t].pc = "Unlock"
         /\ threads[t].param.name \in DOMAIN threads[t].seen)
            => /\ threads[t].err =
                      "plugin " \o threads[t].param.name \o " is already registered"
               /\ registry = threads[t].seen
               /\ GetPlugin(registry, threads[t].param.name) =
                      [plg |-> threads[t].seen[threads[t].param.name], err |-> Nil]

\* RegisterPlugin was called with another plugin of a registered name
C18_Witness ==
    \E t \in Threads :
        /\ threads[t].op = "RegisterPlugin"
        /\ threads[t].pc = "Unlock"
        /\ threads[t].param.name \in DOMAIN threads[t].seen
        /\ threads[t].seen[threads[t].param.name] # threads[t].param

(***************************************************************************)
(* C19: ExecutePlugin calls Execute only after Validate of the same plugin *)
(* returned no error for the same configuration: for a job type that is    *)
(* not registered it calls neither and returns "plugin <type> not found";  *)
(* when Validate fails it does not call Execute and returns the wrapped    *)
(* error; otherwise it returns what Execute returns.                       *)
(***************************************************************************)
Capabilities(trace) == [i \in 1..Len(trace) |-> trace[i].capability]

C19_ExecuteOnlyAfterValidate ==
    \A t \in Threads :
        threads[t].op = "ExecutePlugin"
            => /\ Capabilities(threads[t].trace) \in
                      {<<>>, <<"Validate">>, <<"Validate", "Execute">>}
               /\ \A i \in 1..Len(threads[t].trace) :
                      /\ threads[t].trace[i].plugin = threads[t].plg
                      /\ threads[t].trace[i].config = threads[t].config
                      /\ threads[t].plg = threads[t].seen[threads[t].name]
               /\ Len(threads[t].trace) = 2 => threads[t].plg.validateErr = Nil
               /\ (threads[t].pc \in {"RUnlock", "idle"}
                   /\ threads[t].name \notin DOMAIN threads[t].seen)
                      => /\ threads[t].trace = <<>>
                         /\ threads[t].err = "plugin " \o threads[t].name \o " not found"
               /\ (threads[t].pc = "idle" /\ threads[t].name \in DOMAIN threads[t].seen)
                      => IF threads[t].plg.validateErr # Nil
                         THEN /\ Capabilities(threads[t].trace) = <<"Validate">>
                              /\ threads[t].err = "invalid configuration: "
                                                      \o threads[t].plg.validateErr
                         ELSE /\ Capabilities(threads[t].trace) = <<"Validate", "Execute">>
                              /\ threads[t].err = threads[t].plg.executeErr
                              /\ threads[t].success <=> threads[t].plg.executeErr = Nil

\* one ExecutePlugin returned the error of a failed Validate without calling
\* Execute, another returned for a job type that is not registered
C19_Witness ==
    \E t, u \in Threads :
        /\ threads[t].op = "ExecutePlugin"
        /\ threads[t].pc = "idle"
        /\ Capabilities(threads[t].trace) = <<"Validate">>
        /\ threads[t].err # Nil
        /\ threads[u].op = "ExecutePlugin"
        /\ threads[u].pc = "idle"
        /\ threads[u].trace = <<>>
        /\ threads[u].err = "plugin http not found"

(***************************************************************************)
(* C20: while a goroutine is in the critical section of RegisterPlugin or  *)
(* LoadPlugins, where the registry is written, no other goroutine is in a  *)
(* critical section of the manager; the goroutines in the critical         *)
(* sections of GetPlugin, ListPlugins and ExecutePlugin, which read the    *)
(* registry, may be several.                                               *)
(***************************************************************************)
InWriteSection(t) == threads[t].pc \in {"locked", "Unlock"}
InReadSection(t) == threads[t].pc \in {"rlocked", "RUnlock"}

C20_WritersExcludeAll ==
    \A t \in Threads :
        InWriteSection(t)
            => \A u \in Threads \ {t} : ~InWriteSection(u) /\ ~InReadSection(u)

\* two goroutines are in read sections at the same time, after a registration
C20_Witness ==
    /\ registry # <<>>
    /\ \E t, u \in Threads :
           /\ t # u
           /\ threads[t].pc = "rlocked" /\ threads[t].op = "ExecutePlugin"
           /\ threads[u].pc = "rlocked" /\ threads[u].op = "ListPlugins"

(***************************************************************************)
(* config.Resolver.  A Go string of the resolver is the sequence of its    *)
(* characters; an interface{} value is a record of its dynamic type and    *)
(* its value; a map[string]interface{} is a function on its keys.          *)
(***************************************************************************)
\* number of segments (references and pieces of text) a configuration string is
\* put together from
MaxSegments == 3
\* number of maps and lists a configuration string is nested in
MaxDepth == 2

\* the nil interface{} value, and the nil map; the field of a value that its
\* dynamic type does not use holds the zero value
NilValue ==
    [kind |-> "nil", str |-> <<>>, int |-> 0, bool |-> FALSE, map |-> <<>>, slice |-> <<>>]

StringValue(s) == [NilValue EXCEPT !.kind = "string", !.str = s]

IntValue(n) == [NilValue EXCEPT !.kind = "int", !.int = n]

BoolValue(b) == [NilValue EXCEPT !.kind = "bool", !.bool = b]

MapValue(m) == [NilValue EXCEPT !.kind = "map", !.map = m]

SliceValue(s) == [NilValue EXCEPT !.kind = "slice", !.slice = s]

RECURSIVE GoString(_)
\* the characters as one string, for the text of an error
GoString(chars) == IF chars = <<>> THEN "" ELSE Head(chars) \o GoString(Tail(chars))

\* strings.HasPrefix and strings.HasSuffix
HasPrefix(s, prefix) == Len(s) >= Len(prefix) /\ SubSeq(s, 1, Len(prefix)) = prefix

HasSuffix(s, suffix) ==
    Len(s) >= Len(suffix) /\ SubSeq(s, Len(s) - Len(suffix) + 1, Len(s)) = suffix

RECURSIVE Split(_, _)
\* strings.Split with a separator of one character
Split(s, sep) ==
    IF \A i \in 1..Len(s) : s[i] # sep THEN <<s>>
    ELSE LET i == CHOOSE k \in 1..Len(s) : s[k] = sep /\ \A j \in 1..(k - 1) : s[j] # sep
         IN  <<SubSeq(s, 1, i - 1)>> \o Split(SubSeq(s, i + 1, Len(s)), sep)

\* refRegex, \${([^}]+)}, matched at position i of s: the position of the closing
\* brace of the match, 0 when there is no match at i
refRegex(s, i) ==
    IF /\ i + 3 <= Len(s)
       /\ s[i] = "$" /\ s[i + 1] = "{" /\ s[i + 2] # "}"
       /\ \E j \in (i + 3)..Len(s) : s[j] = "}"
    THEN CHOOSE j \in (i + 3)..Len(s) : s[j] = "}" /\ \A k \in (i + 3)..(j - 1) : s[k] # "}"
    ELSE 0

\* refRegex.MatchString
MatchString(s) == \E i \in 1..Len(s) : refRegex(s, i) # 0

Digits == <<"0", "1", "2", "3", "4", "5", "6", "7", "8", "9">>

RECURSIVE Itoa(_)
\* the decimal digits of a number
Itoa(n) == IF n < 10 THEN <<Digits[n + 1]>> ELSE Itoa(n \div 10) \o <<Digits[(n % 10) + 1]>>

\* the characters of the model in the order of their bytes
ByteOrder ==
    <<" ", "$", "-", ".", "0", "1", "2", "3", "4", "5", "6", "7", "8", "9", ":", "=",
      "[", "]", "a", "b", "p", "x", "{", "}">>

Byte(c) == CHOOSE i \in 1..Len(ByteOrder) : ByteOrder[i] = c

RECURSIVE StringLess(_, _)
\* s < t of Go strings
StringLess(s, t) ==
    IF t = <<>> THEN FALSE
    ELSE IF s = <<>> THEN TRUE
    ELSE IF Head(s) # Head(t) THEN Byte(Head(s)) < Byte(Head(t))
    ELSE StringLess(Tail(s), Tail(t))

RECURSIVE SortedKeys(_)
\* the keys of a map as fmt prints them: sorted
SortedKeys(keys) ==
    IF keys = {} THEN <<>>
    ELSE LET k == CHOOSE x \in keys : \A y \in keys \ {x} : StringLess(x, y)
         IN  <<k>> \o SortedKeys(keys \ {k})

RECURSIVE Sprintf(_)
RECURSIVE sprintfMap(_, _, _)
RECURSIVE sprintfSlice(_, _)
\* fmt.Sprintf("%v", v)
Sprintf(v) ==
    CASE v.kind = "string" -> v.str
      [] v.kind = "int" -> Itoa(v.int)
      [] v.kind = "bool" -> IF v.bool THEN <<"t", "r", "u", "e">>
                                     ELSE <<"f", "a", "l", "s", "e">>
      [] v.kind = "map" ->
             <<"m", "a", "p", "[">> \o sprintfMap(v.map, SortedKeys(DOMAIN v.map), 1)
                 \o <<"]">>
      [] v.kind = "slice" -> <<"[">> \o sprintfSlice(v.slice, 1) \o <<"]">>
      [] OTHER -> <<"<", "n", "i", "l", ">">>

\* the entries key:value of a map, separated by a space
sprintfMap(m, keys, i) ==
    IF i > Len(keys) THEN <<>>
    ELSE (IF i > 1 THEN <<" ">> ELSE <<>>) \o keys[i] \o <<":">> \o Sprintf(m[keys[i]])
             \o sprintfMap(m, keys, i + 1)

\* the elements of a slice, separated by a space
sprintfSlice(slice, i) ==
    IF i > Len(slice) THEN <<>>
    ELSE (IF i > 1 THEN <<" ">> ELSE <<>>) \o Sprintf(slice[i]) \o sprintfSlice(slice, i + 1)

RECURSIVE resolvePathLoop(_, _, _, _)
\* the loop of resolvePath over the parts, from part i on
resolvePathLoop(path, parts, i, current) ==
    IF i > Len(parts) THEN [val |-> current, err |-> Nil]
    ELSE IF current.kind = "map"
         THEN IF parts[i] \in DOMAIN current.map
              THEN resolvePathLoop(path, parts, i + 1, current.map[parts[i]])
              ELSE [val |-> NilValue,
                    err |-> "reference path not found: " \o GoString(path)]
         ELSE [val |-> NilValue, err |-> "invalid reference path: " \o GoString(path)]

resolvePath(path, context) ==
    resolvePathLoop(path, Split(path, "."), 1, MapValue(context))

\* "the entire string is a reference" of resolveString
IsReferenceNever(value) == FALSE

IsReference(value) ==
    MatchString(value) /\ HasPrefix(value, <<"$", "{">>) /\ HasSuffix(value, <<"}">>)

\* the function resolveString passes to ReplaceAllStringFunc
replaceFunc(match, context) ==
    LET path == SubSeq(match, 3, Len(match) - 1)
        r == resolvePath(path, context)
    IN  IF r.err # Nil THEN match ELSE Sprintf(r.val)

RECURSIVE ReplaceAllStringFunc(_, _, _)
\* refRegex.ReplaceAllStringFunc from position i of s on: the matches are looked for
\* from left to right and do not overlap
ReplaceAllStringFunc(s, i, context) ==
    IF i > Len(s) THEN <<>>
    ELSE IF refRegex(s, i) = 0
         THEN <<s[i]>> \o ReplaceAllStringFunc(s, i + 1, context)
         ELSE replaceFunc(SubSeq(s, i, refRegex(s, i)), context)
                  \o ReplaceAllStringFunc(s, refRegex(s, i) + 1, context)

resolveString(value, context) ==
    IF IsReference(value)
    THEN LET path == SubSeq(value, 3, Len(value) - 1)
             r == resolvePath(path, context)
         IN  IF r.err # Nil
             THEN [val |-> NilValue, err |-> r.err]
             ELSE [val |-> r.val, err |-> Nil]
    ELSE [val |-> StringValue(ReplaceAllStringFunc(value, 1, context)), err |-> Nil]

RECURSIVE ResolveValues(_, _)
RECURSIVE resolveValuesLoop(_, _, _, _, _)
RECURSIVE resolveValue(_, _)
RECURSIVE resolveSliceKeepingItems(_, _, _, _)
RECURSIVE resolveSlice(_, _, _, _)

\* the loop of ResolveValues over the keys of config, visited in the given order,
\* from position i on: what the call may return
resolveValuesLoop(config, context, order, i, resolved) ==
    IF i > Len(order) THEN {[val |-> MapValue(resolved), err |-> Nil]}
    ELSE UNION {IF r.err # Nil
                THEN {[val |-> NilValue,
                       err |-> "error resolving value for key " \o GoString(order[i])
                                   \o ": " \o r.err]}
                ELSE resolveValuesLoop(config, context, order, i + 1,
                                       Store(resolved, order[i], r.val)) :
                   r \in resolveValue(config[order[i]], context)}

\* what ResolveValues may return, over the orders the keys may be visited in
ResolveValues(config, context) ==
    UNION {resolveValuesLoop(config, context, order, 1, <<>>) :
              order \in Perms(DOMAIN config)}

resolveValue(value, context) ==
    CASE value.kind = "string" -> {resolveString(value.str, context)}
      [] value.kind = "map" -> ResolveValues(value.map, context)
      [] value.kind = "slice" -> resolveSlice(value.slice, context, 1, <<>>)
      [] OTHER -> {[val |-> value, err |-> Nil]}

resolveSliceKeepingItems(slice, context, i, resolved) ==
    IF i > Len(slice) THEN {[val |-> SliceValue(resolved), err |-> Nil]}
    ELSE UNION {resolveSliceKeepingItems(slice, context, i + 1,
                    Append(resolved, IF r.err # Nil THEN slice[i] ELSE r.val)) :
                   r \in resolveValue(slice[i], context)}

\* the loop of resolveSlice, from item i on (item i has the Go index i - 1)
resolveSlice(slice, context, i, resolved) ==
    IF i > Len(slice) THEN {[val |-> SliceValue(resolved), err |-> Nil]}
    ELSE UNION {IF r.err # Nil
                THEN {[val |-> NilValue,
                       err |-> "error resolving array item " \o GoString(Itoa(i - 1))
                                   \o ": " \o r.err]}
                ELSE resolveSlice(slice, context, i + 1, Append(resolved, r.val)) :
                   r \in resolveValue(slice[i], context)}

(***************************************************************************)
(* The configurations and contexts ResolveValues is called with.           *)
(***************************************************************************)
RECURSIVE Join(_, _)
\* strings.Join with a separator of one character
Join(parts, sep) ==
    IF Len(parts) = 1 THEN parts[1] ELSE parts[1] \o <<sep>> \o Join(Tail(parts), sep)

\* a reference ${path}, given by the keys of its path, and a piece of text
Reference(parts) == [ref |-> TRUE, parts |-> parts, text |-> <<>>]

Text(chars) == [ref |-> FALSE, parts |-> <<>>, text |-> chars]

Segments ==
    {Reference(<<<<"a">>, <<"b">>>>), Reference(<<<<"a">>>>), Reference(<<<<"b">>>>),
     Reference(<<<<"x">>, <<"a">>>>), Reference(<<<<"a">>, <<"b">>, <<"x">>>>),
     Text(<<"p", "=">>), Text(<<"-">>), Text(<<"}">>)}

SegmentLists == UNION {[1..n -> Segments] : n \in 1..MaxSegments}

\* the characters of a segment, and of a list of segments
SegmentChars(seg) ==
    IF seg.ref THEN <<"$", "{">> \o Join(seg.parts, ".") \o <<"}">> ELSE seg.text

RECURSIVE Concat(_)
Concat(segs) == IF segs = <<>> THEN <<>> ELSE SegmentChars(Head(segs)) \o Concat(Tail(segs))

\* the maps and slices a string is nested in, from the outermost on
Shapes == UNION {[1..n -> {"map", "slice"}] : n \in 0..MaxDepth}

RECURSIVE Nest(_, _)
\* v under the key "a" of a map that also holds a number, or as the second item of a
\* slice that starts with a boolean, and so on along the shape
Nest(v, shape) ==
    IF shape = <<>> THEN v
    ELSE IF Head(shape) = "map"
         THEN MapValue((<<"a">> :> Nest(v, Tail(shape))) @@ (<<"b">> :> IntValue(7)))
         ELSE SliceValue(<<BoolValue(TRUE), Nest(v, Tail(shape))>>)

Contexts ==
    {(<<"a">> :> MapValue(<<"b">> :> IntValue(42))) @@ (<<"b">> :> BoolValue(TRUE)),
     (<<"a">> :> MapValue(<<"b">> :> SliceValue(<<IntValue(7), StringValue(<<"-">>)>>)))
         @@ (<<"b">> :> StringValue(<<"x">>))}

\* no plan is run
EngineUnused ==
    /\ plan = [Stages |-> <<>>, Rollback |-> NoRollback]
    /\ options = [AutoRollback |-> FALSE, SkipApproval |-> FALSE, DryRun |-> FALSE]
    /\ approval = "approved"
    /\ ExecutePlanEntered

\* ResolveValues is called with a configuration that holds one string, nested in
\* maps and slices
ResolverInit ==
    /\ \E segs \in SegmentLists, shape \in Shapes, ctx \in Contexts :
           resolving = [pc |-> "called", segments |-> segs, shape |-> shape,
                        config |-> Nest(StringValue(Concat(segs)), <<"map">> \o shape).map,
                        context |-> ctx, result |-> NilValue, err |-> Nil]
    /\ jobGraph = Unused
    /\ validating = Unused
    /\ executing = Unused
    /\ EngineUnused
    /\ NewManager

ResolveValuesReturns ==
    /\ resolving.pc = "called"
    /\ \E r \in ResolveValues(resolving.config, resolving.context) :
           resolving' = [resolving EXCEPT !.pc = "returned", !.result = r.val,
                                          !.err = r.err]
    /\ UNCHANGED <<jobGraph, validating, executing, engineVars, managerVars>>

ResolverNext == ResolveValuesReturns

ResolverSpec == ResolverInit /\ [][ResolverNext]_vars

(***************************************************************************)
(* Vocabulary of the properties of the resolver.                           *)
(***************************************************************************)
RECURSIVE PathsOf(_)
\* the paths of a context, each with the value stored at it
PathsOf(m) ==
    UNION {{<<(<<k>>), m[k]>>}
              \cup (IF m[k].kind = "map"
                    THEN {<<(<<k>>) \o q[1], q[2]>> : q \in PathsOf(m[k].map)}
                    ELSE {}) : k \in DOMAIN m}

Resolvable(seg, context) == \E q \in PathsOf(context) : q[1] = seg.parts

StoredAt(seg, context) == (CHOOSE q \in PathsOf(context) : q[1] = seg.parts)[2]

RECURSIVE Leaf(_, _)
\* what stands in a tree where Nest has put the string
Leaf(v, shape) ==
    IF shape = <<>> THEN v
    ELSE IF Head(shape) = "map" THEN Leaf(v.map[<<"a">>], Tail(shape))
         ELSE Leaf(v.slice[2], Tail(shape))

\* what ResolveValues has put in the place of the string of the configuration
ResolvedLeaf == Leaf(resolving.result, <<"map">> \o resolving.shape)

RECURSIVE Substituted(_, _)
\* the segments with every resolvable reference replaced by the string form of its
\* value, everything else as it is
Substituted(segs, context) ==
    IF segs = <<>> THEN <<>>
    ELSE (IF Head(segs).ref /\ Resolvable(Head(segs), context)
          THEN Sprintf(StoredAt(Head(segs), context))
          ELSE SegmentChars(Head(segs))) \o Substituted(Tail(segs), context)

\* the string of the configuration is one reference and nothing else
OneReference == Len(resolving.segments) = 1 /\ resolving.segments[1].ref

\* ResolveValues has returned the tree with the embedded references substituted
EmbeddedSubstitution ==
    /\ resolving.err = Nil
    /\ ResolvedLeaf = StringValue(Substituted(resolving.segments, resolving.context))

(***************************************************************************)
(* C21: a string that is exactly one reference ${path} resolves to the     *)
(* value stored at that path in the context, with its type (number,        *)
(* boolean, string, map or list), not to its string form.                  *)
(***************************************************************************)
C21_WholeReferenceKeepsType ==
    (/\ resolving.pc = "returned"
     /\ OneReference
     /\ Resolvable(resolving.segments[1], resolving.context))
        => /\ resolving.err = Nil
           /\ ResolvedLeaf = StoredAt(resolving.segments[1], resolving.context)

\* "${a.b}" against {a: {b: 42}, b: true} has given the number 42
C21_Witness ==
    /\ resolving.pc = "returned"
    /\ resolving.segments = <<Reference(<<<<"a">>, <<"b">>>>)>>
    /\ resolving.shape = <<>>
    /\ resolving.config[<<"a">>] = StringValue(<<"$", "{", "a", ".", "b", "}">>)
    /\ resolving.context[<<"a">>] = MapValue(<<"b">> :> IntValue(42))
    /\ resolving.err = Nil
    /\ resolving.result.map[<<"a">>] = IntValue(42)

(***************************************************************************)
(* C22: a string that is one reference whose path cannot be resolved (a    *)
(* missing key, or an intermediate value that is no map) makes the whole   *)
(* ResolveValues call return an error and no tree, however deep in maps    *)
(* and lists the string stands.                                            *)
(***************************************************************************)
C22_UnresolvableReferenceFails ==
    (/\ resolving.pc = "returned"
     /\ OneReference
     /\ ~Resolvable(resolving.segments[1], resolving.context))
        => /\ resolving.err # Nil
           /\ resolving.result = NilValue

\* "${a.b.x}", where a.b is a number, in a map in a slice has failed the call
C22_Witness ==
    /\ resolving.pc = "returned"
    /\ resolving.segments = <<Reference(<<<<"a">>, <<"b">>, <<"x">>>>)>>
    /\ resolving.shape = <<"slice", "map">>
    /\ resolving.context[<<"a">>] = MapValue(<<"b">> :> IntValue(42))
    /\ resolving.err = "error resolving value for key a: error resolving array item 1: "
                          \o "error resolving value for key a: invalid reference path: a.b.x"
    /\ resolving.result = NilValue

(***************************************************************************)
(* C23: a string with references embedded in other text resolves, without  *)
(* error, to the string in which each resolvable reference is replaced by  *)
(* the string form of its value and each unresolvable one is left as it    *)
(* is.                                                                     *)
(***************************************************************************)
C23_EmbeddedReferencesSubstituted ==
    (/\ resolving.pc = "returned"
     /\ \E i \in 1..Len(resolving.segments) : resolving.segments[i].ref
     /\ \E i \in 1..Len(resolving.segments) : ~resolving.segments[i].ref)
        => EmbeddedSubstitution

(***************************************************************************)
(* C24: only a string that is a single ${path} is a whole-value reference; *)
(* every other string, one that starts with a reference and ends with a    *)
(* reference included, is resolved by embedded substitution.               *)
(***************************************************************************)
C24_OnlySingleReferenceIsWhole ==
    (resolving.pc = "returned" /\ ~OneReference) => EmbeddedSubstitution

(***************************************************************************)
(* engine.JobGraph, called method by method.                               *)
(***************************************************************************)
\* number of AddJob, AddDependency and MarkCompleted calls made on the graph
MaxGraphCalls == 4

\* NewJobGraph(); nothing has been called yet
GraphInit ==
    /\ jobGraph = [g |-> NewJobGraph, returned |-> "NewJobGraph", ready |-> <<>>,
                   cycles |-> FALSE, marked |-> {}, ncalls |-> 0]
    /\ resolving = Unused
    /\ validating = Unused
    /\ executing = Unused
    /\ EngineUnused
    /\ NewManager

AddJobCalled ==
    /\ jobGraph.ncalls < MaxGraphCalls
    /\ \E name \in JobNames :
           jobGraph' = [jobGraph EXCEPT !.g = AddJob(@, Job(name, {})),
                                        !.returned = "AddJob", !.ready = <<>>,
                                        !.cycles = FALSE, !.ncalls = @ + 1]
    /\ UNCHANGED <<resolving, validating, executing, engineVars, managerVars>>

AddDependencyCalled ==
    /\ jobGraph.ncalls < MaxGraphCalls
    /\ \E jobName \in JobNames, dependsOn \in JobNames :
           jobGraph' = [jobGraph EXCEPT !.g = AddDependency(@, jobName, dependsOn),
                                        !.returned = "AddDependency", !.ready = <<>>,
                                        !.cycles = FALSE, !.ncalls = @ + 1]
    /\ UNCHANGED <<resolving, validating, executing, engineVars, managerVars>>

\* marked is the history of the names MarkCompleted has been called with
MarkCompletedCalled ==
    /\ jobGraph.ncalls < MaxGraphCalls
    /\ \E jobName \in JobNames :
           jobGraph' = [jobGraph EXCEPT !.g = MarkCompleted(@, jobName),
                                        !.returned = "MarkCompleted", !.ready = <<>>,
                                        !.cycles = FALSE, !.ncalls = @ + 1,
                                        !.marked = @ \cup {jobName}]
    /\ UNCHANGED <<resolving, validating, executing, engineVars, managerVars>>

GetReadyJobsCalled ==
    /\ \E ready \in GetReadyJobs(jobGraph.g) :
           jobGraph' = [jobGraph EXCEPT !.returned = "GetReadyJobs", !.ready = ready,
                                        !.cycles = FALSE]
    /\ UNCHANGED <<resolving, validating, executing, engineVars, managerVars>>

HasCyclesCalled ==
    /\ \E cycles \in HasCycles(jobGraph.g) :
           jobGraph' = [jobGraph EXCEPT !.returned = "HasCycles", !.ready = <<>>,
                                        !.cycles = cycles]
    /\ UNCHANGED <<resolving, validating, executing, engineVars, managerVars>>

GraphNext ==
    \/ AddJobCalled
    \/ AddDependencyCalled
    \/ MarkCompletedCalled
    \/ GetReadyJobsCalled
    \/ HasCyclesCalled

GraphSpec == GraphInit /\ [][GraphNext]_vars

(***************************************************************************)
(* Vocabulary of the properties of the graph.                              *)
(***************************************************************************)
\* the names the job called name depends on, by the dependency lists of the graph
DependenciesOf(g, name) ==
    IF name \in DOMAIN g.dependencies THEN Range(g.dependencies[name]) ELSE {}

RECURSIVE ReachableInGraph(_, _)
\* the names of S and the names reached from them over dependency edges
ReachableInGraph(g, S) ==
    LET step == S \cup UNION {DependenciesOf(g, n) : n \in S}
    IN  IF step = S THEN S ELSE ReachableInGraph(g, step)

\* a directed cycle of dependency edges can be reached from a registered job
CycleReachable(g) ==
    \E n \in ReachableInGraph(g, DOMAIN g.jobs) :
        n \in ReachableInGraph(g, DependenciesOf(g, n))

(***************************************************************************)
(* C25: GetReadyJobs returns the registered jobs that are not marked       *)
(* completed and whose dependencies are all marked completed, each once    *)
(* and no other job.                                                       *)
(***************************************************************************)
C25_ReadyJobsExact ==
    jobGraph.returned = "GetReadyJobs"
        => /\ Range(jobGraph.ready) =
                  {n \in DOMAIN jobGraph.g.jobs :
                      /\ n \notin jobGraph.g.completed
                      /\ DependenciesOf(jobGraph.g, n) \subseteq jobGraph.g.completed}
           /\ Cardinality(Range(jobGraph.ready)) = Len(jobGraph.ready)

\* GetReadyJobs has left out a job whose first dependency is completed and whose
\* second is not, and has returned another job
C25_Witness ==
    /\ jobGraph.returned = "GetReadyJobs"
    /\ jobGraph.ready = <<"B">>
    /\ DOMAIN jobGraph.g.jobs = {"A", "B"}
    /\ jobGraph.g.dependencies["A"] = <<"B", "C">>
    /\ jobGraph.g.completed = {}

(***************************************************************************)
(* C26: HasCycles returns true exactly when the dependency edges reachable *)
(* from the registered jobs contain a directed cycle, a self-dependency    *)
(* included, in whatever order the jobs are visited.                       *)
(***************************************************************************)
C26_HasCyclesExact ==
    jobGraph.returned = "HasCycles" => (jobGraph.cycles <=> CycleReachable(jobGraph.g))

\* HasCycles has returned false for a graph in which a dependency is reached twice,
\* and whose only cycle cannot be reached from a registered job
C26_Witness ==
    /\ jobGraph.returned = "HasCycles"
    /\ ~jobGraph.cycles
    /\ DOMAIN jobGraph.g.jobs = {"A"}
    /\ jobGraph.g.dependencies["A"] = <<"B", "B">>
    /\ "C" \in DependenciesOf(jobGraph.g, "C")

(***************************************************************************)
(* C27: a job marked completed stays completed under every later AddJob,   *)
(* AddDependency, MarkCompleted and GetReadyJobs call, and MarkCompleted   *)
(* called again for its name leaves the graph as it is.                    *)
(***************************************************************************)
C27_CompletedIsPermanent ==
    \A name \in jobGraph.marked :
        /\ name \in jobGraph.g.completed
        /\ MarkCompleted(jobGraph.g, name) = jobGraph.g

\* a job was marked completed, then registered again and given a dependency, and
\* GetReadyJobs does not return it
C27_Witness ==
    /\ jobGraph.returned = "GetReadyJobs"
    /\ jobGraph.marked = {"A"}
    /\ jobGraph.ncalls = 4
    /\ "A" \in DOMAIN jobGraph.g.jobs
    /\ jobGraph.g.dependencies["A"] = <<"B">>
    /\ jobGraph.ready = <<>>

(***************************************************************************)
(* config.Validator                                                        *)
(***************************************************************************)
RECURSIVE checkDeps(_, _, _)
RECURSIVE checkDepsLoop(_, _, _, _)
RECURSIVE checkDepsJobs(_, _, _, _)

\* the closure checkDeps of checkCircularDependencies;
\* st = [visited, stack, err], the result carries the updated maps
checkDeps(jobs, job, st) ==
    LET entered == [st EXCEPT !.visited = @ \cup {job.Name}, !.stack = @ \cup {job.Name}]
        r == checkDepsLoop(jobs, job, 1, entered)
    IN  IF r.err # Nil THEN r ELSE [r EXCEPT !.stack = @ \ {job.Name}]

\* the loop of checkDeps over job.DependsOn, from position d on
checkDepsLoop(jobs, job, d, st) ==
    IF d > Len(job.DependsOn) THEN st
    ELSE IF job.DependsOn[d] \notin st.visited
         THEN LET r == checkDepsJobs(jobs, job.DependsOn[d], 1, st)
              IN  IF r.err # Nil THEN r ELSE checkDepsLoop(jobs, job, d + 1, r)
         ELSE IF job.DependsOn[d] \in st.stack
              THEN [st EXCEPT !.err = "circular dependency detected: " \o job.Name
                                          \o " -> " \o job.DependsOn[d]]
              ELSE checkDepsLoop(jobs, job, d + 1, st)

\* the loop of checkDeps over jobs that looks for the jobs called depName
checkDepsJobs(jobs, depName, k, st) ==
    IF k > Len(jobs) THEN st
    ELSE IF jobs[k].Name = depName
         THEN LET r == checkDeps(jobs, jobs[k], st)
              IN  IF r.err # Nil THEN r ELSE checkDepsJobs(jobs, depName, k + 1, r)
         ELSE checkDepsJobs(jobs, depName, k + 1, st)

RECURSIVE checkCircularLoop(_, _, _)
\* the loop of checkCircularDependencies over jobs, from position k on
checkCircularLoop(jobs, k, st) ==
    IF k > Len(jobs) THEN Nil
    ELSE IF jobs[k].Name \notin st.visited
         THEN LET r == checkDeps(jobs, jobs[k], st)
              IN  IF r.err # Nil THEN r.err ELSE checkCircularLoop(jobs, k + 1, r)
         ELSE checkCircularLoop(jobs, k + 1, st)

checkCircularDependencies(jobs) ==
    checkCircularLoop(jobs, 1, [visited |-> {}, stack |-> {}, err |-> Nil])

RECURSIVE validateDependsOn(_, _, _, _, _)
\* the loop "Validate job dependencies" over job.DependsOn, from position d on;
\* where is "stage" or "rollback.stage"
validateDependsOn(where, stage, job, d, jobNames) ==
    IF d > Len(job.DependsOn) THEN Nil
    ELSE IF job.DependsOn[d] \notin jobNames
         THEN where \o "[" \o stage.Name \o "].job[" \o job.Name
                  \o "] depends on unknown job: " \o job.DependsOn[d]
         ELSE validateDependsOn(where, stage, job, d + 1, jobNames)

RECURSIVE validateJobs(_, _, _)
\* the loop "Validate jobs" over the jobs of a forward stage, from position j on
validateJobs(stage, j, jobNames) ==
    IF j > Len(stage.Jobs) THEN Nil
    ELSE LET job == stage.Jobs[j]
         IN  IF job.Name = ""
             THEN "stage[" \o stage.Name \o "].job[" \o GoString(Itoa(j - 1))
                      \o "].name is required"
             ELSE IF job.Name \in jobNames
             THEN "duplicate job name in stage " \o stage.Name \o ": " \o job.Name
             ELSE IF job.Type = ""
             THEN "stage[" \o stage.Name \o "].job[" \o job.Name \o "].type is required"
             ELSE LET err == validateDependsOn("stage", stage, job, 1,
                                               jobNames \cup {job.Name})
                  IN  IF err # Nil THEN err
                      ELSE validateJobs(stage, j + 1, jobNames \cup {job.Name})

RECURSIVE validateRollbackJobs(_, _, _)
\* the loop "Validate rollback jobs" over the jobs of a rollback stage
validateRollbackJobs(stage, j, jobNames) ==
    IF j > Len(stage.Jobs) THEN Nil
    ELSE LET job == stage.Jobs[j]
         IN  IF job.Name = ""
             THEN "rollback.stage[" \o stage.Name \o "].job[" \o GoString(Itoa(j - 1))
                      \o "].name is required"
             ELSE IF job.Name \in jobNames
             THEN "duplicate job name in rollback stage " \o stage.Name \o ": " \o job.Name
             ELSE IF job.Type = ""
             THEN "rollback.stage[" \o stage.Name \o "].job[" \o job.Name
                      \o "].type is required"
             ELSE LET err == validateDependsOn("rollback.stage", stage, job, 1,
                                               jobNames \cup {job.Name})
                  IN  IF err # Nil THEN err
                      ELSE validateRollbackJobs(stage, j + 1, jobNames \cup {job.Name})

RECURSIVE validateStages(_, _, _)
\* the loop "Validate stages" over plan.Stages, from position i on
validateStages(stages, i, stageNames) ==
    IF i > Len(stages) THEN Nil
    ELSE LET stage == stages[i]
         IN  IF stage.Name = ""
             THEN "stage[" \o GoString(Itoa(i - 1)) \o "].name is required"
             ELSE IF stage.Name \in stageNames
             THEN "duplicate stage name: " \o stage.Name
             ELSE IF Len(stage.Jobs) = 0
             THEN "stage[" \o stage.Name \o "] must have at least one job"
             ELSE IF validateJobs(stage, 1, {}) # Nil
             THEN validateJobs(stage, 1, {})
             ELSE IF checkCircularDependencies(stage.Jobs) # Nil
             THEN "in stage " \o stage.Name \o ": "
                      \o checkCircularDependencies(stage.Jobs)
             ELSE validateStages(stages, i + 1, stageNames \cup {stage.Name})

RECURSIVE validateRollbackStages(_, _)
\* the loop "Validate rollback stages" over plan.Rollback.Stages
validateRollbackStages(stages, i) ==
    IF i > Len(stages) THEN Nil
    ELSE LET stage == stages[i]
         IN  IF stage.Name = ""
             THEN "rollback.stage[" \o GoString(Itoa(i - 1)) \o "].name is required"
             ELSE IF Len(stage.Jobs) = 0
             THEN "rollback.stage[" \o stage.Name \o "] must have at least one job"
             ELSE IF validateRollbackJobs(stage, 1, {}) # Nil
             THEN validateRollbackJobs(stage, 1, {})
             ELSE validateRollbackStages(stages, i + 1)

\* p is the *models.Plan: present is FALSE for nil
ValidatePlan(p) ==
    IF ~p.present THEN "plan cannot be nil"
    ELSE IF p.APIVersion = "" THEN "apiVersion is required"
    ELSE IF p.Kind = "" THEN "kind is required"
    ELSE IF p.Metadata.Name = "" THEN "metadata.name is required"
    ELSE IF Len(p.Stages) = 0 THEN "at least one stage is required"
    ELSE IF validateStages(p.Stages, 1, {}) # Nil THEN validateStages(p.Stages, 1, {})
    ELSE IF p.Rollback.present
         THEN IF Len(p.Rollback.Stages) = 0
              THEN "rollback must have at least one stage"
              ELSE validateRollbackStages(p.Rollback.Stages, 1)
         ELSE Nil

(***************************************************************************)
(* The plans ValidatePlan is called with.                                  *)
(***************************************************************************)
\* the jobs with their Type
Typed(jobs, type) ==
    [i \in 1..Len(jobs) |->
        [Name |-> jobs[i].Name, Type |-> type, DependsOn |-> jobs[i].DependsOn]]

\* the job lists of JobLists, and lists with a job without name, with two jobs of
\* one name and with a job without type
ValidatorJobLists ==
    {Typed(jobs, "shell") : jobs \in JobLists}
        \cup {Typed(<<Job("", {})>>, "shell"),
              Typed(<<Job("A", {}), Job("A", {})>>, "shell"),
              Typed(<<Job("A", {})>>, "")}

\* stage lists whose stages have a name of the pool or none, two stages the same
\* name or not
ValidatorStageLists(pool, max) ==
    UNION {{[i \in 1..n |-> Stage(names[i], FALSE, Typed(js[i], "shell"))] :
               names \in [1..n -> {""} \cup {pool[k] : k \in 1..max}],
               js \in [1..n -> StageShapes]} : n \in 0..max}

ValidatorPlan(apiVersion, kind, name, stages, rollback) ==
    [present |-> TRUE, APIVersion |-> apiVersion, Kind |-> kind,
     Metadata |-> [Name |-> name], Stages |-> stages, Rollback |-> rollback]

\* the nil *models.Plan
NilPlan ==
    [present |-> FALSE, APIVersion |-> "", Kind |-> "", Metadata |-> [Name |-> ""],
     Stages |-> <<>>, Rollback |-> NoRollback]

\* a stage that passes the validation
GoodStage == Stage(StageNamePool[1], FALSE, Typed(SingleJob, "shell"))

ValidatorPlans ==
    {NilPlan}
    \cup {ValidatorPlan(a, k, n, <<GoodStage>>, NoRollback) :
            a \in {"", "grp/v1"}, k \in {"", "ReleasePlan"}, n \in {"", "release"}}
    \cup {ValidatorPlan("grp/v1", "ReleasePlan", "release",
                        <<Stage(StageNamePool[1], FALSE, jobs)>>, NoRollback) :
            jobs \in ValidatorJobLists}
    \cup {ValidatorPlan("grp/v1", "ReleasePlan", "release", <<GoodStage>>,
                        [present |-> TRUE,
                         Stages |-> <<Stage(RollbackNamePool[1], FALSE, jobs)>>]) :
            jobs \in ValidatorJobLists}
    \cup {ValidatorPlan("grp/v1", "ReleasePlan", "release", stages, NoRollback) :
            stages \in ValidatorStageLists(StageNamePool, MaxStages)}
    \cup {ValidatorPlan("grp/v1", "ReleasePlan", "release", <<GoodStage>>,
                        [present |-> TRUE, Stages |-> stages]) :
            stages \in ValidatorStageLists(RollbackNamePool, MaxRollbackStages)}

\* the validate command: ValidatePlan is called with the plan that was loaded
ValidatorInit ==
    /\ validating \in {[pc |-> "called", plan |-> p, err |-> Nil] : p \in ValidatorPlans}
    /\ resolving = Unused
    /\ jobGraph = Unused
    /\ executing = Unused
    /\ EngineUnused
    /\ NewManager

ValidatePlanReturns ==
    /\ validating.pc = "called"
    /\ validating' = [validating EXCEPT !.pc = "returned",
                                        !.err = ValidatePlan(validating.plan)]
    /\ UNCHANGED <<resolving, jobGraph, executing, engineVars, managerVars>>

ValidatorNext == ValidatePlanReturns

ValidatorSpec == ValidatorInit /\ [][ValidatorNext]_vars

(***************************************************************************)
(* Vocabulary of the properties of the validator.                          *)
(***************************************************************************)
\* the plan invariant for a stage: every dependsOn entry names a job of the stage,
\* and HasCycles is false for the graph built from its jobs
StageInvariant(stage) ==
    /\ DepsKnown(stage.Jobs)
    /\ HasCycles(buildDependencyGraph(stage.Jobs)) = {FALSE}

\* job j of the stage has a dependsOn entry that names no job declared before it
DependsOnUndeclared(stage, j) ==
    \E d \in 1..Len(stage.Jobs[j].DependsOn) :
        stage.Jobs[j].DependsOn[d] \notin {stage.Jobs[k].Name : k \in 1..(j - 1)}

\* two jobs of the stage depend on each other
MutuallyDependent(stage) ==
    \E j, k \in 1..Len(stage.Jobs) :
        /\ j # k
        /\ stage.Jobs[k].Name \in Range(stage.Jobs[j].DependsOn)
        /\ stage.Jobs[j].Name \in Range(stage.Jobs[k].DependsOn)

\* the plan has its required fields, and its first stage a name and jobs with
\* names, no name twice, and types
WellFormedFirstStage(p) ==
    /\ p.present /\ p.APIVersion # "" /\ p.Kind # "" /\ p.Metadata.Name # ""
    /\ Len(p.Stages) > 0
    /\ p.Stages[1].Name # ""
    /\ \A j \in 1..Len(p.Stages[1].Jobs) :
           /\ p.Stages[1].Jobs[j].Name # ""
           /\ p.Stages[1].Jobs[j].Type # ""
           /\ \A k \in 1..Len(p.Stages[1].Jobs) :
                  p.Stages[1].Jobs[k].Name = p.Stages[1].Jobs[j].Name => k = j

(***************************************************************************)
(* C28: every plan that ValidatePlan accepts satisfies the plan invariant  *)
(* in every forward stage and in every rollback stage: the dependsOn names *)
(* are jobs of the stage and HasCycles is false for the stage's graph.     *)
(***************************************************************************)
C28_AcceptedPlanKeepsInvariant ==
    (validating.pc = "returned" /\ validating.err = Nil)
        => /\ \A i \in 1..Len(validating.plan.Stages) :
                  StageInvariant(validating.plan.Stages[i])
           /\ \A i \in 1..Len(validating.plan.Rollback.Stages) :
                  StageInvariant(validating.plan.Rollback.Stages[i])

(***************************************************************************)
(* C29: ValidatePlan rejects every plan in which a dependsOn entry of a    *)
(* job names a job that is not declared earlier in the job list of its     *)
(* stage; two jobs of a stage that depend on each other are rejected with  *)
(* the error "depends on unknown job".                                     *)
(***************************************************************************)
C29_UndeclaredDependencyRejected ==
    validating.pc = "returned"
        => /\ (\E i \in 1..Len(validating.plan.Stages) :
                  \E j \in 1..Len(validating.plan.Stages[i].Jobs) :
                      DependsOnUndeclared(validating.plan.Stages[i], j))
                  => validating.err # Nil
           /\ (\E i \in 1..Len(validating.plan.Rollback.Stages) :
                  \E j \in 1..Len(validating.plan.Rollback.Stages[i].Jobs) :
                      DependsOnUndeclared(validating.plan.Rollback.Stages[i], j))
                  => validating.err # Nil
           /\ (WellFormedFirstStage(validating.plan)
                  /\ MutuallyDependent(validating.plan.Stages[1]))
                  => \E x, y \in JobNames :
                         validating.err = "stage[" \o validating.plan.Stages[1].Name
                             \o "].job[" \o x \o "] depends on unknown job: " \o y

(***************************************************************************)
(* Vocabulary of the properties of the registry.                           *)
(***************************************************************************)
\* the registry has been written by RegisterPlugin calls only
OnlyRegisterPluginCalls ==
    \A i \in 1..Len(managerLog) : managerLog[i].op = "RegisterPlugin"

\* the plugins whose RegisterPlugin call returned nil
Registered ==
    {managerLog[i].param : i \in {k \in 1..Len(managerLog) :
                                     managerLog[k].op = "RegisterPlugin"
                                         /\ managerLog[k].err = Nil}}

(***************************************************************************)
(* C30: after RegisterPlugin calls, GetPlugin(name) returns a plugin and   *)
(* no error exactly when a registration under that name has succeeded, and *)
(* then the plugin that was registered; ListPlugins returns the registered *)
(* plugins, one for each registered name.                                  *)
(***************************************************************************)
C30_RegistryHoldsRegistered ==
    OnlyRegisterPluginCalls
        => \A t \in Threads :
               /\ (threads[t].pc = "RUnlock" /\ threads[t].op = "GetPlugin")
                      => /\ threads[t].err = Nil
                             <=> \E p \in Registered : p.name = threads[t].name
                         /\ threads[t].err = Nil
                             => /\ threads[t].plg \in Registered
                                /\ threads[t].plg.name = threads[t].name
                         /\ threads[t].err # Nil => threads[t].plg = NilPlugin
               /\ (threads[t].pc = "RUnlock" /\ threads[t].op = "ListPlugins")
                      => /\ Range(threads[t].list) = Registered
                         /\ Len(threads[t].list) = Cardinality({p.name : p \in Registered})

\* after a registration of "kubernetes" and a rejected second one, GetPlugin has
\* returned the plugin of the first
C30_Witness ==
    /\ Len(managerLog) = 2
    /\ managerLog[1] = [op |-> "RegisterPlugin", param |-> Plugin("kubernetes", 1, Nil, Nil),
                        err |-> Nil]
    /\ managerLog[2].op = "RegisterPlugin"
    /\ managerLog[2].param.name = "kubernetes"
    /\ managerLog[2].err = "plugin kubernetes is already registered"
    /\ \E t \in Threads :
           /\ threads[t].pc = "RUnlock"
           /\ threads[t].op = "GetPlugin"
           /\ threads[t].name = "kubernetes"
           /\ threads[t].err = Nil
           /\ threads[t].plg = Plugin("kubernetes", 1, Nil, Nil)

(***************************************************************************)
(* C31: in a wave that contains a failure, exactly the jobs that succeeded *)
(* and come before the first failed job in the wave's dispatch order are   *)
(* marked completed; the failed job and every job after it stay not        *)
(* completed, and no further wave is dispatched.                           *)
(***************************************************************************)
\* the slots of the wave whose goroutine stored a failure
FailedSlots == {i \in 1..Len(jobResults) : ~jobResults[i].Success}

\* the first of them in dispatch order
FirstFailedSlot == CHOOSE i \in FailedSlots : \A k \in FailedSlots : i <= k

\* the barrier of a wave with a failure has been passed
FailedWaveAtBarrier == pc = "wave" /\ running = {} /\ FailedSlots # {}

C31_FailedWaveMarksPrefix ==
    [][FailedWaveAtBarrier =>
          /\ pc' = "returned"
          /\ graph'.completed =
                 graph.completed \cup {readyJobs[i] : i \in 1..(FirstFailedSlot - 1)}
          /\ \A i \in FirstFailedSlot..Len(readyJobs) : ~Completed(graph', readyJobs[i])
          /\ dispatched' = dispatched]_vars

\* a wave of three jobs has ended: the first succeeded and is completed, the second
\* failed, the third succeeded and is not completed
C31_Witness ==
    /\ pc = "returned"
    /\ \E a, b, c \in finished :
           /\ a.call = Len(calls) /\ b.call = Len(calls) /\ c.call = Len(calls)
           /\ a.wave = waveNo /\ b.wave = waveNo /\ c.wave = waveNo
           /\ a.slot < b.slot /\ b.slot < c.slot
           /\ a.result.Success /\ ~b.result.Success /\ c.result.Success
           /\ Completed(graph, a.result.Name)
           /\ ~Completed(graph, b.result.Name)
           /\ ~Completed(graph, c.result.Name)

(***************************************************************************)
(* C32: while a goroutine of the current wave is still running the graph   *)
(* and the stage result do not change: a step taken then is the end of one *)
(* goroutine, which writes its own slot of jobResults and nothing else, so *)
(* every MarkCompleted happens after the barrier.                          *)
(***************************************************************************)
C32_GraphStableDuringWave ==
    [][running # {} =>
          /\ graph' = graph
          /\ stageResult' = stageResult
          /\ readyJobs' = readyJobs
          /\ \E t \in running :
                 /\ running' = running \ {t}
                 /\ DOMAIN jobResults' = DOMAIN jobResults
                 /\ \A i \in DOMAIN jobResults :
                        i # t.slot => jobResults'[i] = jobResults[i]]_vars

\* in the second wave of a call one goroutine has stored its result while another
\* one is still running
C32_Witness ==
    /\ pc = "wave"
    /\ waveNo > 1
    /\ graph.completed # {}
    /\ \E t \in running, f \in finished :
           /\ f.call = t.call /\ f.wave = t.wave /\ f.slot # t.slot
           /\ jobResults[f.slot] = f.result
           /\ jobResults[t.slot] = ZeroJobResult

(***************************************************************************)
(* One job from its goroutine to the processing of its wave: the goroutine *)
(* of ExecuteGraph, Executor.executeJob and Manager.ExecutePlugin, for a   *)
(* wave made of the one job A of a given type, a given registry and a      *)
(* given handler behaviour.                                                *)
(***************************************************************************)
\* the job types of a plan: the registered names and one that no plugin has
JobTypes == PluginNames \cup {"shell"}

\* the registries the manager can hold: plugins of the pool under their own names
Registries ==
    {reg \in UNION {[N -> PluginPool] : N \in SUBSET PluginNames} :
        \A n \in DOMAIN reg : reg[n].name = n}

\* the plugin.Result a handler's Execute returns when it returns no error
HandlerResults ==
    {[Success |-> TRUE, Message |-> "applied"],
     [Success |-> FALSE, Message |-> "unhealthy"]}

\* ExecutePlugin has returned nothing yet
NoReturn == [err |-> Nil, Success |-> FALSE, Message |-> "", invoked |-> <<>>]

ExecuteJobInit ==
    /\ executing \in
           {[pc |-> "go", jobType |-> t, registry |-> reg, handler |-> h, dryRun |-> d,
             plg |-> NilPlugin, ret |-> NoReturn, result |-> ZeroJobResult,
             Jobs |-> <<>>, err |-> Nil] :
               t \in JobTypes, reg \in Registries, h \in HandlerResults, d \in BOOLEAN}
    /\ resolving = Unused
    /\ jobGraph = Unused
    /\ validating = Unused
    /\ EngineUnused
    /\ NewManager

\* the goroutine of the job: the dry-run branch stores a success, the other branch
\* calls executeJob, which calls ExecutePlugin
JobGoroutine ==
    /\ executing.pc = "go"
    /\ executing' =
           IF executing.dryRun
           THEN [executing EXCEPT !.pc = "stored",
                                  !.result = [Name |-> "A", Success |-> TRUE,
                                              Message |-> "Dry run simulation"]]
           ELSE [executing EXCEPT !.pc = "GetPlugin"]
    /\ UNCHANGED <<resolving, jobGraph, validating, engineVars, managerVars>>

\* ExecutePlugin: "plg, err := pm.GetPlugin(jobType)", the error is returned
ExecutePluginGetsPlugin ==
    /\ executing.pc = "GetPlugin"
    /\ LET got == GetPlugin(executing.registry, executing.jobType)
       IN  executing' =
               IF got.err # Nil
               THEN [executing EXCEPT !.pc = "executeJob",
                                      !.ret = [NoReturn EXCEPT !.err = got.err]]
               ELSE [executing EXCEPT !.pc = "Validate", !.plg = got.plg]
    /\ UNCHANGED <<resolving, jobGraph, validating, engineVars, managerVars>>

\* ExecutePlugin: plg.Validate, its error is wrapped and returned
ExecutePluginValidates ==
    /\ executing.pc = "Validate"
    /\ executing' =
           IF ValidationFailed(executing.plg.validateErr)
           THEN [executing EXCEPT
                    !.pc = "executeJob",
                    !.ret = [NoReturn EXCEPT
                                !.err = "invalid configuration: "
                                            \o executing.plg.validateErr,
                                !.invoked = <<"Validate">>]]
           ELSE [executing EXCEPT !.pc = "Execute", !.ret.invoked = <<"Validate">>]
    /\ UNCHANGED <<resolving, jobGraph, validating, engineVars, managerVars>>

\* ExecutePlugin: "result, err := plg.Execute(execCtx, config); return result, err"
ExecutePluginExecutes ==
    /\ executing.pc = "Execute"
    /\ executing' =
           [executing EXCEPT
               !.pc = "executeJob",
               !.ret = IF executing.plg.executeErr # Nil
                       THEN [NoReturn EXCEPT !.err = executing.plg.executeErr,
                                             !.invoked = <<"Validate", "Execute">>]
                       ELSE [err |-> Nil,
                             Success |-> executing.handler.Success,
                             Message |-> executing.handler.Message,
                             invoked |-> <<"Validate", "Execute">>]]
    /\ UNCHANGED <<resolving, jobGraph, validating, engineVars, managerVars>>

\* executeJob returns and the goroutine stores the JobResult in its slot
executeJobReturns ==
    /\ executing.pc = "executeJob"
    /\ LET outcome == executeJob(executing.ret)
       IN  executing' = [executing EXCEPT
                            !.pc = "stored",
                            !.result = [Name |-> "A", Success |-> outcome.Success,
                                        Message |-> outcome.Message]]
    /\ UNCHANGED <<resolving, jobGraph, validating, engineVars, managerVars>>

\* ExecuteGraph after wg.Wait(): the results of the wave, here the one of job A, are
\* processed
JobWaveProcessed ==
    /\ executing.pc = "stored"
    /\ LET r == processResults(buildDependencyGraph(SingleJob), <<>>,
                               <<executing.result>>, 1)
       IN  executing' = [executing EXCEPT !.pc = "returned", !.Jobs = r.Jobs,
                                          !.err = r.err]
    /\ UNCHANGED <<resolving, jobGraph, validating, engineVars, managerVars>>

ExecuteJobNext ==
    \/ JobGoroutine
    \/ ExecutePluginGetsPlugin
    \/ ExecutePluginValidates
    \/ ExecutePluginExecutes
    \/ executeJobReturns
    \/ JobWaveProcessed

ExecuteJobSpec == ExecuteJobInit /\ [][ExecuteJobNext]_vars

(***************************************************************************)
(* Vocabulary of the properties of executeJob.                             *)
(***************************************************************************)
\* the type of the job has no plugin in the registry
Unregistered == executing.jobType \notin DOMAIN executing.registry

\* the plugin of the job's type rejects the configuration
ValidationError ==
    ~Unregistered /\ executing.registry[executing.jobType].validateErr # Nil

\* the plugin of the job's type accepts the configuration and its Execute fails
ExecutionError ==
    /\ ~Unregistered
    /\ executing.registry[executing.jobType].validateErr = Nil
    /\ executing.registry[executing.jobType].executeErr # Nil

\* its Execute returns a result with Success unset
Unsuccessful ==
    /\ ~Unregistered /\ ~ValidationError /\ ~ExecutionError
    /\ ~executing.handler.Success

\* the goroutine of a real run has stored the JobResult of the job
RealJobStored == executing.pc \in {"stored", "returned"} /\ ~executing.dryRun

(***************************************************************************)
(* C33: in real mode the JobResult of a job is successful exactly when     *)
(* ExecutePlugin returned no error and a result with Success set; an       *)
(* unregistered job type, a validation error, an execution error and a     *)
(* result with Success unset each give a failed JobResult with a message,  *)
(* and ExecuteGraph then returns an error for the stage.                   *)
(***************************************************************************)
C33_SuccessIffPluginSucceeded ==
    RealJobStored =>
        /\ executing.result.Success
               <=> (executing.ret.err = Nil /\ executing.ret.Success)
        /\ executing.result.Success
               <=> ~(Unregistered \/ ValidationError \/ ExecutionError \/ Unsuccessful)
        /\ ~executing.result.Success => executing.result.Message # ""
        /\ executing.pc = "returned" =>
               /\ executing.Jobs = <<executing.result>>
               /\ executing.err # Nil <=> ~executing.result.Success

\* the handler ran and returned a result with Success unset: the job is recorded as
\* failed with the handler's message and the stage has failed
C33_Witness ==
    /\ executing.pc = "returned"
    /\ ~executing.dryRun
    /\ Unsuccessful
    /\ executing.ret.invoked = <<"Validate", "Execute">>
    /\ executing.Jobs = <<[Name |-> "A", Success |-> FALSE, Message |-> "unhealthy"]>>
    /\ executing.err = "job A failed: unhealthy"

(***************************************************************************)
(* C34: completion never carries from one stage to another: every call of  *)
(* ExecuteGraph, for a forward or a rollback stage, starts from a graph of *)
(* the stage's jobs in which no job is completed, and a job is completed   *)
(* in the graph only by a successful result of its own call, also when     *)
(* stages share job names.                                                 *)
(***************************************************************************)
\* the completion marks of the graph stem from the current call
CompletionOfCurrentCallOnly ==
    /\ pc = "execute" =>
           /\ graph.completed = {}
           /\ DOMAIN graph.jobs = JobNamesOf(CallJobs(Len(calls)))
    /\ pc \in {"execute", "wave", "returned"} =>
           \A name \in graph.completed :
               \E f \in finished :
                   f.call = Len(calls) /\ f.result.Name = name /\ f.result.Success

C34_FreshGraphPerStage == []CompletionOfCurrentCallOnly

\* a rollback stage runs a job whose name completed in the first forward stage and
\* was dispatched again in the second one
C34_Witness ==
    /\ pc = "wave"
    /\ Len(calls) = 3
    /\ calls[3].caller = "executeRollback"
    /\ \E t \in running, f1, f2 \in finished :
           /\ t.call = 3
           /\ f1.call = 1 /\ f1.result.Name = readyJobs[t.slot] /\ f1.result.Success
           /\ f2.call = 2 /\ f2.result.Name = readyJobs[t.slot]
           /\ ~Completed(graph, readyJobs[t.slot])

(***************************************************************************)
(* C35: within one ExecuteGraph call no job is dispatched more than once,  *)
(* in the same or in different waves, and StageResult.Jobs holds at most   *)
(* one JobResult per job name.                                             *)
(***************************************************************************)
\* no job is dispatched or recorded twice in a call
NoJobDispatchedTwice ==
    /\ \A k1, k2 \in 1..Len(dispatched) :
           (dispatched[k1].call = dispatched[k2].call
                /\ dispatched[k1].job = dispatched[k2].job) => k1 = k2
    /\ \A i, j \in 1..Len(stageResult.Jobs) :
           stageResult.Jobs[i].Name = stageResult.Jobs[j].Name => i = j

C35_DispatchedAtMostOnce == []NoJobDispatchedTwice

\* a call has dispatched three jobs in more than one wave and recorded all of them
C35_Witness ==
    /\ pc = "returned"
    /\ waveNo > 1
    /\ Cardinality(DispatchedIn(Len(calls))) = 3
    /\ Len(stageResult.Jobs) = 3

(***************************************************************************)
(* C36: every StageResult holds at most one failed JobResult, which is the *)
(* last entry of StageResult.Jobs, and the FailedJobs count of the         *)
(* ExecutionResult is at most 1, also when several jobs of one wave failed.*)
(***************************************************************************)
\* no entry of jobs but the last one is a failure
OnlyLastFailed(jobs) == \A i \in 1..Len(jobs) : ~jobs[i].Success => i = Len(jobs)

\* a failed JobResult is the last one of its stage and the only one counted
FailureOnlyLast ==
    /\ OnlyLastFailed(stageResult.Jobs)
    /\ \A n \in 1..Len(result.Stages) : OnlyLastFailed(result.Stages[n].Jobs)
    /\ result.FailedJobs <= 1

C36_AtMostOneFailedJobResult == []FailureOnlyLast

\* ExecutePlan has returned after a wave of three jobs, the first of which succeeded
\* and the other two failed: FailedJobs is 1 and the stage has two JobResults
C36_Witness ==
    /\ pc = "done"
    /\ result.FailedJobs = 1
    /\ Len(result.Stages) = 1
    /\ Len(result.Stages[1].Jobs) = 2
    /\ \E f1, f2 \in finished :
           /\ f1.call = f2.call /\ f1.wave = f2.wave /\ f1.slot # f2.slot
           /\ ~f1.result.Success /\ ~f2.result.Success

(***************************************************************************)
(* C37: when ExecutePlan returns success for a plan that ValidatePlan      *)
(* accepts, every job of every forward stage has exactly one JobResult,    *)
(* which is successful, len(result.Stages) = TotalStages, CompletedJobs =  *)
(* TotalJobs and FailedJobs = 0.                                           *)
(***************************************************************************)
\* the plan of the run as the loader hands it to the validator: with the fields the
\* engine does not read (apiVersion, kind, metadata.name, the job types) set
PlanAsLoaded ==
    ValidatorPlan("grp/v1", "ReleasePlan", "release",
        [i \in 1..Len(plan.Stages) |->
            Stage(plan.Stages[i].Name, plan.Stages[i].RequireApproval,
                  Typed(plan.Stages[i].Jobs, "shell"))],
        [present |-> plan.Rollback.present,
         Stages |-> [i \in 1..Len(plan.Rollback.Stages) |->
                        Stage(plan.Rollback.Stages[i].Name,
                              plan.Rollback.Stages[i].RequireApproval,
                              Typed(plan.Rollback.Stages[i].Jobs, "shell"))]])

\* ExecutePlan has returned a nil error
PlanReturnedSuccess == pc = "done" /\ retErr = Nil

\* the positions of the JobResults of the job called name
ResultsOf(jobs, name) == {r \in 1..Len(jobs) : jobs[r].Name = name}

\* a successful run of an accepted plan has run every job to success
SuccessHasEveryJobSucceeded ==
    (PlanReturnedSuccess /\ ValidatePlan(PlanAsLoaded) = Nil) =>
        /\ result.Success
        /\ Len(result.Stages) = result.TotalStages
        /\ result.TotalStages = Len(plan.Stages)
        /\ \A n \in 1..Len(plan.Stages) :
               /\ result.Stages[n].Name = plan.Stages[n].Name
               /\ \A name \in JobNamesOf(plan.Stages[n].Jobs) :
                      /\ Cardinality(ResultsOf(result.Stages[n].Jobs, name)) = 1
                      /\ RecordedSuccessful(result.Stages[n].Jobs, name)
        /\ result.CompletedJobs = result.TotalJobs
        /\ result.TotalJobs = countTotalJobs(plan.Stages, 1)
        /\ result.FailedJobs = 0

C37_SuccessMeansEveryJobSucceeded == []SuccessHasEveryJobSucceeded

\* an accepted plan of two stages with four jobs has run to success
C37_Witness ==
    /\ PlanReturnedSuccess
    /\ ValidatePlan(PlanAsLoaded) = Nil
    /\ Len(plan.Stages) = 2
    /\ result.TotalJobs = 4
    /\ result.CompletedJobs = 4

(***************************************************************************)
(* C38: running the rollback plan leaves the stage list of the             *)
(* ExecutionResult unchanged: the results of rollback stages and rollback  *)
(* jobs are neither appended to result.Stages nor counted, so              *)
(* len(result.Stages) never exceeds TotalStages and CompletedJobs +        *)
(* FailedJobs never exceeds TotalJobs.                                     *)
(***************************************************************************)
\* executeRollback is running
InRollback ==
    \/ pc = "rollback"
    \/ pc \in {"execute", "wave", "returned"} /\ caller = "executeRollback"

\* the stages and the counts of the ExecutionResult stay within the forward plan
ResultWithinForwardPlan ==
    /\ Len(result.Stages) <= result.TotalStages
    /\ result.CompletedJobs + result.FailedJobs <= result.TotalJobs
    /\ \A n \in 1..Len(result.Stages) : result.Stages[n].Name = plan.Stages[n].Name
    /\ pc = "done" =>
           /\ result.CompletedJobs = Cardinality(JobResultsWith(result.Stages, TRUE))
           /\ result.FailedJobs = Cardinality(JobResultsWith(result.Stages, FALSE))

C38_RollbackLeavesStagesUnchanged ==
    /\ []ResultWithinForwardPlan
    /\ [][InRollback => result'.Stages = result.Stages]_vars

\* ExecutePlan has returned after a rollback whose job succeeded: the stage list
\* holds the forward stages only and the counts are those of the forward jobs
C38_Witness ==
    /\ pc = "done"
    /\ Len(RollbackCalls) = 2
    /\ \E f \in finished :
           calls[f.call].caller = "executeRollback" /\ f.result.Success
    /\ Len(result.Stages) = Len(ForwardCalls)
    /\ result.FailedJobs = 1
    /\ result.CompletedJobs + result.FailedJobs < Cardinality(finished)

(***************************************************************************)
(* C39: once a name is bound to a handler in the registry, no later        *)
(* operation of the manager (RegisterPlugin or LoadPlugins, in any order   *)
(* and number) binds that name to a different handler.                     *)
(***************************************************************************)
C39_BindingIsPermanent ==
    [][\A n \in DOMAIN registry :
          n \in DOMAIN registry' /\ registry'[n] = registry[n]]_vars

(***************************************************************************)
(* C40: ExecutePlugin holds no registry lock while the handler's Validate  *)
(* or Execute runs: the mutex is held only by goroutines inside a registry *)
(* section, none of which waits for anything, so a RegisterPlugin or       *)
(* LoadPlugins call, or a registry call of the handler itself, is never    *)
(* blocked by a running handler, and the callers of the manager cannot     *)
(* deadlock.                                                               *)
(***************************************************************************)
\* the handler of the ExecutePlugin call of goroutine t is running or about to run
HandlerRunning(t) == threads[t].pc \in {"Validate", "Execute"}

\* goroutine t waits in pm.mutex.Lock() or pm.mutex.RLock(); a reader also waits
\* while a writer is waiting, as sync.RWMutex holds new readers back then
Waiting(t) ==
    \/ threads[t].pc = "Lock" /\ ~CanLock(mutex)
    \/ /\ threads[t].pc = "RLock"
       /\ (~CanRLock(mutex) \/ \E u \in Threads \ {t} : threads[u].pc = "Lock")

C40_NoLockWhileHandlerRuns ==
    /\ \A t \in Threads :
           /\ mutex.writer = t <=> InWriteSection(t)
           /\ t \in mutex.readers <=> InReadSection(t)
           /\ HandlerRunning(t) => mutex.writer # t /\ t \notin mutex.readers
    /\ \A t \in Threads :
           (threads[t].pc = "Lock"
                /\ \A u \in Threads \ {t} : HandlerRunning(u) \/ threads[u].pc = "idle")
               => CanLock(mutex)
    /\ (\E t \in Threads : threads[t].pc # "idle")
           => \E t \in Threads : threads[t].pc # "idle" /\ ~Waiting(t)

\* LoadPlugins holds the write lock while the handler of an ExecutePlugin call of
\* another goroutine is running
C40_Witness ==
    \E t, u \in Threads :
        /\ threads[t].op = "ExecutePlugin"
        /\ threads[t].pc = "Execute"
        /\ threads[u].op = "LoadPlugins"
        /\ threads[u].pc = "locked"
        /\ mutex.writer = u

====
